---------------------------- MODULE Spec2Model ----------------------------
(***************************************************************************)
(* A model of the glace renderer's per-frame schedule (src/renderer/mod.rs *)
(* WgpuRendererPlugin::build) and of the systems it runs.                  *)
(*                                                                         *)
(* One frame is one run of the host's Update schedule.  The plugin adds a  *)
(* chain of eleven systems (update_depth_texture ... end_render) that run  *)
(* in that order, and a number of systems with no ordering constraint:     *)
(* the host may run each of those once, at any point of the frame.  A      *)
(* system's Commands are deferred; they take effect at the next            *)
(* apply_system_buffers.  Change detection (is_changed, Added, Changed) is *)
(* per observing system: "written since this system last ran".             *)
(***************************************************************************)
EXTENDS Integers, Sequences, FiniteSets, TLC

VARIABLES
    pc,              \* number of systems of the chain that ran this frame
    ran,             \* the unordered systems that ran this frame
    panic,           \* the system that panicked ("": none); the process is gone
    window,          \* the window entity exists
    encoder,         \* resource WgpuEncoder(Option<CommandEncoder>)
    surfaceTexture,  \* resource WgpuSurfaceTexture(Option<SurfaceTexture>)
    view,            \* resource WgpuView { view, sampled_view }
    pending,         \* Commands queued by systems, not yet applied
    ops,             \* this frame's surface/device/queue calls, in order
    msaa,            \* resource Msaa { samples }
    msaaChanged,     \* Msaa.is_changed(), per observing system
    depthTexture,    \* resource DepthTexture: width, height, sample count
    base3dPass,      \* resource Base3dPass: sample count of its pipelines
    eguiRenderer,    \* resource EguiRenderer: sample count of its pipeline
    passLog,         \* this frame's render passes with their attachments
    winSize,         \* the window's physical size <<width, height>>
    resizeEvents,    \* WindowResized events the resize system has not read
    config,          \* WgpuRenderer.config (and size): <<width, height>>
    submitted,       \* the command buffers submitted this frame
    aspect,          \* Camera.projection.aspect, a fraction <<num, den>>
    cameraUniform,   \* the aspect CameraUniform.view_proj was derived from
    screenSize,      \* EguiScreenDesciptorRes.size_in_pixels
    resizeLog,       \* this frame's run of resize, with the chain position
    transform,       \* the entity's Transform component (its scale)
    model,           \* the entity's Model component: meshes and materials
    changed,         \* Added/Changed of the entity's components, per system
                     \* (transform: Changed<Transform> or Changed<Instances>)
    instanceBuffer,  \* the entity's InstanceBuffer component and its rows
    gpuMaterials,    \* the entity's GpuModelMaterials component
    drawn,           \* base_3d::render drew the entity this frame
    gpuRead,         \* what the submitted draws read, and the CPU data then
    instances,       \* the entity's Instances component (a list of Transforms)
    markers,         \* the entity's Light, Transparent and Wireframe markers
    asset,           \* the entity's asset handle and the asset's load state
    draws,           \* this frame's draw calls of base_3d::render, in order
    bufferOps,       \* this frame's buffer creations and write_buffer calls
    rebuilt,         \* the render objects created anew this frame
    history,         \* whether a component was written this frame, and
                     \* whether the frame before ran without such a write
    camera,          \* resource Camera: its eye along the forward axis, a
                     \* fraction, and Camera.is_changed() for its observer
    velocity,        \* fly_camera's Local<Vec3>: direction and length
    flyInput,        \* the buttons and keys fly_camera read this frame
    viewPosition,    \* CameraUniform.view_position
    cameraBuffer,    \* resource CameraBuffer: the buffer and its content
    lights,          \* the Light components, one per Light entity: the
                     \* position as a step on its circle, the colour as
                     \* <<rgb, alpha>>, and whether it was written since
                     \* update_light_buffer last ran
    lightBuffer,     \* resource LightBuffer: the buffer and its content
    supported,       \* the formats the surface reports, in order
    format           \* WgpuRenderer.config.format

orchVars == <<pc, ran, panic, window, encoder, surfaceTexture, view, pending, ops,
              submitted>>
msaaVars == <<msaa, msaaChanged, depthTexture, base3dPass, eguiRenderer, passLog>>
sizeVars == <<winSize, resizeEvents, config, aspect, cameraUniform, screenSize,
              resizeLog>>
syncVars == <<transform, model, changed, instanceBuffer, gpuMaterials, drawn, gpuRead>>
newVars == <<instances, markers, asset, draws, bufferOps, rebuilt, history>>
viewVars == <<camera, velocity, flyInput, viewPosition, cameraBuffer, lights,
              lightBuffer, supported, format>>
vars == <<orchVars, msaaVars, sizeVars, syncVars, newVars, viewVars>>

(***************************************************************************)
(* Bounds of the model.                                                    *)
(***************************************************************************)
MaxDim == 2       \* window widths and heights range over 0..MaxDim
MaxEvents == 2    \* WindowResized events queued between two frames
MaxScale == 2     \* Transform scales range over 1..MaxScale
MaxGloss == 1     \* material gloss values range over 0..MaxGloss
MaxTranslation == 1  \* translation coordinates range over -Max..Max
MaxInstances == 2    \* an Instances list holds 0..MaxInstances Transforms

Dims == 0..MaxDim
SampleCounts == {1, 4}          \* the counts settings_ui offers (1x, 4x)

(***************************************************************************)
(* The schedule.                                                           *)
(***************************************************************************)
Chain ==
    << "update_depth_texture", "apply_system_buffers", "start_render",
       "apply_system_buffers", "base_3d_update_render_pass", "base_3d_render",
       "apply_system_buffers", "egui_update_render_pass", "egui_render",
       "apply_system_buffers", "end_render" >>

\* The wireframe plugin's render system: ordered after the base 3D pass and
\* before the UI overlay (spec 4.4, passes 4 and 5).
OrderedAfter(sys) ==
    IF sys = "wireframe_render" THEN {"base_3d_render"} ELSE {}

OrderedBefore(sys) ==
    IF sys = "egui_render" THEN {"wireframe_render"} ELSE {}

ChainDone == {Chain[i] : i \in 1..pc}

\* The next system of the chain is `sys`, and every system ordered before it ran.
ChainReady(sys) ==
    /\ panic = ""
    /\ pc < Len(Chain)
    /\ Chain[pc + 1] = sys
    /\ OrderedBefore(sys) \subseteq ran

\* An unordered system runs once a frame, at any point after those it is
\* ordered after.
FreeReady(sys) ==
    /\ panic = ""
    /\ sys \notin ran
    /\ OrderedAfter(sys) \subseteq ChainDone

RECURSIVE GCD(_, _)
GCD(a, b) == IF b = 0 THEN a ELSE GCD(b, a % b)

\* width as f32 / height as f32, as a fraction in lowest terms; <<1, 0>> is
\* +inf (height 0) and <<0, 0>> is NaN (0.0 / 0.0).
Ratio(width, height) ==
    IF width = 0 /\ height = 0 THEN <<0, 0>>
    ELSE <<width \div GCD(width, height), height \div GCD(width, height)>>

\* None of the marker components Light, Transparent, Wireframe.
NoMarkers == [light |-> FALSE, transparent |-> FALSE, wireframe |-> FALSE]

NoInsert == [queued |-> FALSE, data |-> <<>>]

NoCommands == [render |-> FALSE, sampled |-> 0,
               instanceBuffer |-> NoInsert, gpuMaterials |-> NoInsert,
               model |-> NoInsert]

NoInstanceBuffer == [present |-> FALSE, rows |-> <<>>, created |-> 0]

NoTransform == [present |-> FALSE, translation |-> <<0, 0, 0>>, scale |-> 1]

NoRead == [submitted |-> FALSE, drawn |-> FALSE, instance |-> <<>>,
           material |-> <<>>, transform |-> NoTransform, materials |-> <<>>]

\* The f32 quotient n / d (d > 0) of two integers, as a fraction in lowest
\* terms.
Frac(n, d) ==
    LET g == GCD(IF n < 0 THEN -n ELSE n, d) IN <<n \div g, d \div g>>

\* Matrices are sequences of columns, as to_cols_array_2d returns them.
\* Mat4::from_scale_rotation_translation for a scale (s, s, s), the identity
\* rotation and a translation t.
Mat4_from_scale_translation(s, t) ==
    << <<s, 0, 0, 0>>, <<0, s, 0, 0>>, <<0, 0, s, 0>>, <<t[1], t[2], t[3], 1>> >>

\* Mat3::from_quat of the identity rotation.
Mat3_from_quat == << <<1, 0, 0>>, <<0, 1, 0>>, <<0, 0, 1>> >>

\* Mat4::inverse of a matrix [D t; 0 1] with D diagonal: [1/D, -t/D; 0 1].
Mat4_inverse(m) ==
    << <<Frac(1, m[1][1]), <<0, 1>>, <<0, 1>>, <<0, 1>>>>,
       <<<<0, 1>>, Frac(1, m[2][2]), <<0, 1>>, <<0, 1>>>>,
       <<<<0, 1>>, <<0, 1>>, Frac(1, m[3][3]), <<0, 1>>>>,
       <<Frac(-m[4][1], m[1][1]), Frac(-m[4][2], m[2][2]),
         Frac(-m[4][3], m[3][3]), <<1, 1>>>> >>

\* A faulty variant of Mat4_transpose: the matrix as it is.
Mat4_untransposed(m) == m

\* Mat4::transpose
Mat4_transpose(m) == [j \in 1..4 |-> [i \in 1..4 |-> m[i][j]]]

\* Transform::to_raw for a Transform of scale (s, s, s) and identity rotation.
\* The entries of model and normal are integers, those of
\* inverse_transpose_model fractions.
to_raw(t) ==
    LET m == Mat4_from_scale_translation(t.scale, t.translation)
    IN  [model |-> m,
         normal |-> Mat3_from_quat,
         inverse_transpose_model |-> Mat4_transpose(Mat4_inverse(m))]

\* A faulty variant of InstanceData: the first element of Instances only.
FirstInstanceOnly ==
    IF transform.present THEN <<to_raw(transform)>>
    ELSE IF instances.list = <<>> THEN <<>> ELSE <<to_raw(instances.list[1])>>

\* The rows create_instance_buffer and update_instance_buffer build: one for a
\* Transform, else one per element of Instances.
InstanceData ==
    IF transform.present THEN <<to_raw(transform)>>
    ELSE [i \in 1..Len(instances.list) |-> to_raw(instances.list[i])]

\* The MaterialUniform of a material without a normal texture, and the bytes
\* encase writes for it: base_color, alpha, gloss, specular, flags in order.
USE_NORMAL_MAP == 1
NONE == 0

\* A mesh's material_id: None, or Some(id) with a zero-based id.
None == [some |-> FALSE, id |-> 0]
Some(id) == [some |-> TRUE, id |-> id]

\* A Material of unit alpha, without a normal texture.
Material(gloss) == [alpha |-> <<1, 1>>, gloss |-> gloss, normal_texture |-> FALSE]

NoModel == [present |-> FALSE, meshes |-> <<>>, materials |-> <<>>]

NoGpuMaterials == [present |-> FALSE, data |-> <<>>]

\* The model of spawn_grid and of the shapes: one mesh, material_id None, one
\* material.
Shape(gloss) ==
    [present |-> TRUE, meshes |-> <<None>>, materials |-> <<Material(gloss)>>]

\* A faulty variant of MaterialUniform: the flags are left at NONE.
UniformWithoutFlags(material) ==
    [base_color |-> <<1, 1, 1, 1>>, alpha |-> material.alpha,
     gloss |-> material.gloss,
     specular |-> <<1, 1, 1>>,
     flags |-> NONE]

MaterialUniform(material) ==
    [base_color |-> <<1, 1, 1, 1>>, alpha |-> material.alpha,
     gloss |-> material.gloss,
     specular |-> <<1, 1, 1>>,
     flags |-> IF material.normal_texture THEN USE_NORMAL_MAP ELSE NONE]

UniformBytes(u) == u.base_color \o <<u.alpha, u.gloss>> \o u.specular \o <<u.flags>>

NoResize == [events |-> 0, at |-> 0, configured |-> 0]

(***************************************************************************)
(* The state after the startup schedule: init_renderer configured the      *)
(* surface at the window's size, setup_camera, init_depth_texture,         *)
(* base_3d::setup and the egui setup built their resources from the        *)
(* initial Msaa.  No frame ran yet, so WgpuEncoder, WgpuView and           *)
(* WgpuSurfaceTexture were never inserted, and every system sees Msaa as   *)
(* changed (it was added since the system last ran, which is never).       *)
(***************************************************************************)
init_renderer(size) ==
    /\ config = size
    /\ winSize = size
    /\ resizeEvents = 0
    /\ resizeLog = NoResize

setup_camera(size) ==
    /\ aspect = Ratio(size[1], size[2])
    /\ cameraUniform = Ratio(size[1], size[2])

\* Texture::create_depth_texture: the size of the surface configuration and
\* the given sample count.
create_depth_texture(cfg, samples) ==
    [width |-> cfg[1], height |-> cfg[2], samples |-> samples]

init_depth_texture(size, samples) ==
    depthTexture = create_depth_texture(size, samples)

InitRenderer(size, samples) ==
    /\ pc = 0
    /\ ran = {}
    /\ panic = ""
    /\ window = TRUE
    /\ encoder = [present |-> FALSE, some |-> FALSE, cmds |-> <<>>]
    /\ surfaceTexture = [present |-> FALSE, some |-> FALSE]
    /\ view = [present |-> FALSE, sampled |-> 0]
    /\ pending = NoCommands
    /\ ops = <<>>
    /\ submitted = <<>>
    /\ msaa = samples
    /\ msaaChanged = [depth |-> TRUE, base |-> TRUE, egui |-> TRUE]
    /\ init_renderer(size)
    /\ setup_camera(size)
    /\ init_depth_texture(size, samples)
    /\ base3dPass = samples
    /\ eguiRenderer = samples
    /\ screenSize = size
    /\ passLog = <<>>
    /\ drawn = FALSE
    /\ gpuRead = NoRead
    /\ draws = <<>>
    /\ bufferOps = <<>>
    /\ rebuilt = <<>>
    /\ history = [mutated |-> FALSE, stable |-> FALSE]
    \* setup_camera and setup_mesh_view_bind_group: the camera at CAMERRA_EYE
    \* and at rest, the camera buffer built from its uniform, and the light
    \* buffer built from the one white Light
    /\ camera = [eye |-> <<0, 1>>, changed |-> TRUE]
    /\ velocity = [axis |-> 0, length |-> <<0, 1>>]
    /\ flyInput = [pressed |-> FALSE, keys |-> {}, keyFrames |-> 0]
    /\ viewPosition = <<0, 1>>
    /\ cameraBuffer = [created |-> 1, view_position |-> <<0, 1>>,
                       view_proj |-> <<<<0, 1>>, Ratio(size[1], size[2])>>]
    /\ lights = <<[position |-> 0, color |-> <<0, 1>>, changed |-> TRUE]>>
    /\ lightBuffer = [created |-> 1, data |-> [position |-> 0, color |-> 0]]

\* TextureFormat::describe().srgb
describe_srgb(f) == f \in {"Bgra8UnormSrgb", "Rgba8UnormSrgb"}

\* formats.iter().copied().find(|f| f.describe().srgb)
RECURSIVE find_srgb(_)
find_srgb(formats) ==
    IF formats = <<>> THEN [some |-> FALSE, format |-> ""]
    ELSE IF describe_srgb(Head(formats))
         THEN [some |-> TRUE, format |-> Head(formats)]
         ELSE find_srgb(Tail(formats))

\* The first supported format, whatever it is.
FirstSupported(formats) == formats[1]

\* WgpuRenderer::new: the surface format, for a non-empty list.
surface_format(formats) ==
    IF find_srgb(formats).some THEN find_srgb(formats).format ELSE formats[1]

\* WgpuRenderer::new for a surface that reports a single sRGB format.
InitWith(size, samples) ==
    /\ InitRenderer(size, samples)
    /\ supported = <<"Bgra8UnormSrgb">>
    /\ format = surface_format(supported)

\* No entity carries a Model.
NoScene ==
    /\ transform = NoTransform
    /\ model = NoModel
    /\ changed = [transform |-> FALSE, instance_added |-> FALSE,
                  material_added |-> FALSE, model |-> FALSE]
    /\ instanceBuffer = NoInstanceBuffer
    /\ gpuMaterials = NoGpuMaterials
    /\ instances = [present |-> FALSE, list |-> <<>>]
    /\ markers = NoMarkers
    /\ asset = "none"

Init ==
    /\ \E w \in 1..MaxDim, h \in 1..MaxDim, samples \in SampleCounts :
          InitWith(<<w, h>>, samples)
    /\ NoScene

\* A faulty variant of InsertedResources: the acquired frame is not kept.
EncoderWithoutFrame ==
    [surfaceTexture |-> [present |-> TRUE, some |-> FALSE],
     encoder |-> [present |-> TRUE, some |-> TRUE, cmds |-> <<>>]]

\* The resources start_render inserts for an acquired frame:
\* WgpuSurfaceTexture(Some(output)) and WgpuEncoder(Some(encoder)).
InsertedResources ==
    [surfaceTexture |-> [present |-> TRUE, some |-> TRUE],
     encoder |-> [present |-> TRUE, some |-> TRUE, cmds |-> <<>>]]

(***************************************************************************)
(* Deferred commands.                                                      *)
(***************************************************************************)
\* Applies the queued Commands: start_render's three insert_resource calls,
\* and the components the creation systems insert on the entity.
ApplyCommands ==
    /\ IF pending.render
       THEN /\ surfaceTexture' = InsertedResources.surfaceTexture
            /\ view' = [present |-> TRUE, sampled |-> pending.sampled]
            /\ encoder' = InsertedResources.encoder
       ELSE UNCHANGED <<surfaceTexture, view, encoder>>
    /\ instanceBuffer' =
          IF pending.instanceBuffer.queued
          THEN [present |-> TRUE, rows |-> pending.instanceBuffer.data,
                created |-> instanceBuffer.created + 1]
          ELSE instanceBuffer
    /\ gpuMaterials' =
          IF pending.gpuMaterials.queued
          THEN [present |-> TRUE, data |-> pending.gpuMaterials.data]
          ELSE gpuMaterials
    /\ IF pending.model.queued
       THEN \* the spawner's insert: the Model is added (and changed) for
            \* every system
            /\ model' = pending.model.data
            /\ changed' = [changed EXCEPT !.instance_added = TRUE,
                                          !.material_added = TRUE,
                                          !.model = TRUE]
       ELSE UNCHANGED <<model, changed>>
    /\ pending' = NoCommands

apply_system_buffers ==
    /\ ChainReady("apply_system_buffers")
    /\ ApplyCommands
    /\ pc' = pc + 1
    /\ history' = [history EXCEPT !.mutated = @ \/ pending.model.queued]
    /\ UNCHANGED <<ran, panic, window, ops, submitted, msaaVars, sizeVars,
                   transform, drawn, gpuRead>>
    /\ UNCHANGED <<instances, markers, asset, draws, bufferOps, rebuilt>>
    /\ UNCHANGED viewVars

(***************************************************************************)
(* The frame orchestrator.                                                 *)
(***************************************************************************)
\* What surface.get_current_texture() may return, first and on the retry.
AcquireResults == {"ok", "outdated", "other"}
RetryResults == {"ok", "err"}

\* A faulty variant of OpenFrame: a frame acquired on the retry is dropped.
DropRetriedFrame(calls) ==
    /\ ops' = IF Len(calls) > 1 THEN ops \o calls
              ELSE ops \o calls \o <<"create_command_encoder">>
    /\ pending' = IF Len(calls) > 1 THEN pending
                  ELSE [pending EXCEPT !.render = TRUE,
                                       !.sampled = IF msaa > 1 THEN msaa ELSE 0]
    /\ UNCHANGED panic

\* The tail of start_render once a frame is acquired: create the view and the
\* encoder, queue the three insert_resource commands.
OpenFrame(calls) ==
    /\ ops' = ops \o calls \o <<"create_command_encoder">>
    /\ pending' = [pending EXCEPT !.render = TRUE,
                                  !.sampled = IF msaa > 1 THEN msaa ELSE 0]
    /\ UNCHANGED panic

start_render ==
    /\ ChainReady("start_render")
    /\ pc' = pc + 1
    /\ IF ~window
       THEN UNCHANGED <<ops, pending, panic>>
       ELSE \E first \in AcquireResults, retry \in RetryResults :
              CASE first = "ok" ->
                     OpenFrame(<<"acquire_ok">>)
                [] first = "outdated" /\ retry = "ok" ->
                     OpenFrame(<<"acquire_outdated", "configure", "acquire_ok">>)
                [] first = "outdated" /\ retry = "err" ->
                     \* .expect("Failed to reconfigure surface")
                     /\ ops' = ops \o <<"acquire_outdated", "configure", "acquire_err">>
                     /\ panic' = "start_render"
                     /\ UNCHANGED pending
                [] OTHER ->
                     \* logged, and the system returns
                     /\ ops' = ops \o <<"acquire_err">>
                     /\ UNCHANGED <<pending, panic>>
    /\ UNCHANGED <<ran, window, encoder, surfaceTexture, view, submitted,
                   msaaVars, sizeVars,
                   syncVars>>
    /\ UNCHANGED newVars
    /\ UNCHANGED viewVars

\* A faulty variant of update_depth_texture: no msaa.is_changed() guard.
RecreateEveryFrame ==
    /\ ChainReady("update_depth_texture")
    /\ pc' = pc + 1
    /\ IF TRUE
       THEN /\ depthTexture' = create_depth_texture(config, msaa)
            /\ rebuilt' = Append(rebuilt, "depth_texture")
       ELSE UNCHANGED <<depthTexture, rebuilt>>
    /\ msaaChanged' = [msaaChanged EXCEPT !.depth = FALSE]
    /\ UNCHANGED <<ran, panic, window, encoder, surfaceTexture, view, pending,
                   ops, submitted, msaa, base3dPass, eguiRenderer, passLog,
                   sizeVars,
                   syncVars>>
    /\ UNCHANGED <<instances, markers, asset, draws, bufferOps, history>>
    /\ UNCHANGED viewVars

update_depth_texture ==
    /\ ChainReady("update_depth_texture")
    /\ pc' = pc + 1
    /\ IF msaaChanged.depth
       THEN /\ depthTexture' = create_depth_texture(config, msaa)
            /\ rebuilt' = Append(rebuilt, "depth_texture")
       ELSE UNCHANGED <<depthTexture, rebuilt>>
    /\ msaaChanged' = [msaaChanged EXCEPT !.depth = FALSE]
    /\ UNCHANGED <<ran, panic, window, encoder, surfaceTexture, view, pending,
                   ops, submitted, msaa, base3dPass, eguiRenderer, passLog,
                   sizeVars,
                   syncVars>>
    /\ UNCHANGED <<instances, markers, asset, draws, bufferOps, history>>
    /\ UNCHANGED viewVars

base_3d_update_render_pass ==
    /\ ChainReady("base_3d_update_render_pass")
    /\ pc' = pc + 1
    /\ IF msaaChanged.base
       THEN /\ base3dPass' = msaa
            /\ rebuilt' = Append(rebuilt, "base_3d_pass")
       ELSE UNCHANGED <<base3dPass, rebuilt>>
    /\ msaaChanged' = [msaaChanged EXCEPT !.base = FALSE]
    /\ UNCHANGED <<ran, panic, window, encoder, surfaceTexture, view, pending,
                   ops, submitted, msaa, depthTexture, eguiRenderer, passLog,
                   sizeVars,
                   syncVars>>
    /\ UNCHANGED <<instances, markers, asset, draws, bufferOps, history>>
    /\ UNCHANGED viewVars

\* WgpuView::get_color_attachment: the multisampled view when there is one.
ColorSamples == IF view.sampled > 0 THEN view.sampled ELSE 1

\* Comparison of the f32 values the model holds as fractions <<n, d>>, d > 0.
Less(a, b) == a[1] * b[2] < b[1] * a[2]

\* mesh.material_id.unwrap_or(0)
unwrap_or(option, default) == IF option.some THEN option.id ELSE default

\* The meshes Model::draw_instanced reaches: those before the first one whose
\* material index lies outside gpu_materials.data, where the indexing panics.
IndexPanics(k) == unwrap_or(model.meshes[k], 0) >= Len(gpuMaterials.data)

Reached ==
    {k \in 1..Len(model.meshes) : \A j \in 1..k : ~IndexPanics(j)}

\* A faulty variant of Model_draw_instanced: the alpha is not looked at.
DrawEveryMesh(phase, count, transparent) ==
    [k \in 1..Cardinality(Reached) |->
        [phase |-> phase, mesh |-> k,
         material |-> unwrap_or(model.meshes[k], 0), instances |-> count]]

\* Model::draw_instanced: one draw_indexed per mesh whose material's uniform
\* has alpha below 1.0 (transparent) or equal to 1.0 (not transparent), with
\* the material's bind group and the given instance range.
Model_draw_instanced(phase, count, transparent) ==
    LET alpha(k) == gpuMaterials.data[unwrap_or(model.meshes[k], 0) + 1].uniform.alpha
        draw(k) == [phase |-> phase, mesh |-> k,
                    material |-> unwrap_or(model.meshes[k], 0),
                    instances |-> count]
        all == [k \in 1..Cardinality(Reached) |-> draw(k)]
        Drawn(d) == IF transparent THEN Less(alpha(d.mesh), <<1, 1>>)
                    ELSE alpha(d.mesh) = <<1, 1>>
    IN SelectSeq(all, Drawn)

\* draw_light_model: every mesh, one instance, no material.
draw_light_model ==
    [k \in 1..Len(model.meshes) |->
        [phase |-> "light", mesh |-> k, material |-> 0, instances |-> 1]]

\* A faulty variant of InModelQuery: no Without<Transparent>, no Without<Light>.
UnfilteredQuery == model.present /\ instanceBuffer.present /\ gpuMaterials.present

\* base_3d::render's model_query: the entity has a Model, an InstanceBuffer
\* and GpuModelMaterials, and carries no Light and no Transparent marker.
InModelQuery ==
    /\ model.present /\ instanceBuffer.present /\ gpuMaterials.present
    /\ ~markers.light /\ ~markers.transparent

\* A faulty variant of InstanceCount: the Transform is looked at first, as
\* the creation of the buffer does.
TransformFirstCount == IF transform.present THEN 1 ELSE Len(instances.list)

\* The instance range of the entity's draws: 0..instances.len(), or 0..1.
InstanceCount == IF instances.present THEN Len(instances.list) ELSE 1

\* The render pass's bindings when a loop reaches the entity: what the draws
\* of the entity iterated before it have set. A binding is a pair of what is
\* bound and the index of the sub-mesh or material it belongs to (0 where
\* there is one such object only).
Leftover ==
    [vertex0 |-> <<"previous", 0>>, index |-> <<"previous", 0>>,
     vertex1 |-> <<"previous", 0>>, group0 |-> <<"previous", 0>>,
     group1 |-> <<"previous", 0>>]

\* render_pass.set_vertex_buffer(1, instance_buffer.0.slice(..)), at the top
\* of the entity's iteration.
set_vertex_buffer_1(bound) == [bound EXCEPT !.vertex1 = <<"instance_buffer", 0>>]

\* A faulty variant of Mesh_draw_instanced: the material's bind group is not
\* set.
DrawWithoutMaterial(bound, d) ==
    [bound EXCEPT !.vertex0 = <<"vertex_buffer", d.mesh>>,
                  !.index = <<"index_buffer", d.mesh>>,
                  !.group0 = <<"mesh_view", 0>>]

\* Mesh::draw_instanced: sets vertex buffer 0, the index buffer and the bind
\* groups 0 and 1, then draw_indexed; the bindings at that draw.
Mesh_draw_instanced(bound, d) ==
    [bound EXCEPT !.vertex0 = <<"vertex_buffer", d.mesh>>,
                  !.index = <<"index_buffer", d.mesh>>,
                  !.group0 = <<"mesh_view", 0>>,
                  !.group1 = <<"material", d.material>>]

\* draw_light_mesh_instanced and the wireframe loop: vertex buffer 0, the
\* index buffer and bind group 0 only.
draw_light_mesh_instanced(bound, d) ==
    [bound EXCEPT !.vertex0 = <<"vertex_buffer", d.mesh>>,
                  !.index = <<"index_buffer", d.mesh>>,
                  !.group0 = <<"mesh_view", 0>>]

\* The draws of one loop in order, each with the bindings it is made under.
RECURSIVE RecordDraws(_, _)
RecordDraws(ds, bound) ==
    IF ds = <<>> THEN <<>>
    ELSE LET d == Head(ds)
             b == IF d.phase \in {"opaque", "transparent"}
                  THEN Mesh_draw_instanced(bound, d)
                  ELSE draw_light_mesh_instanced(bound, d)
         IN <<[phase |-> d.phase, mesh |-> d.mesh, material |-> d.material,
               instances |-> d.instances, bound |-> b]>>
            \o RecordDraws(Tail(ds), b)

\* The draw calls of base_3d::render's three loops.
Base3dDraws ==
    (IF InModelQuery
     THEN RecordDraws(Model_draw_instanced("opaque", InstanceCount, FALSE),
                      set_vertex_buffer_1(Leftover))
             \o RecordDraws(Model_draw_instanced("transparent", InstanceCount, TRUE),
                            set_vertex_buffer_1(Leftover))
     ELSE <<>>)
    \o (IF model.present /\ markers.light
        THEN RecordDraws(draw_light_model, Leftover) ELSE <<>>)

\* A faulty variant of Base3dPhases: the transparent loop first.
TransparentFirst == <<"transparent", "opaque", "light">>

\* The phases base_3d::render records into its one render pass, in order.
Base3dPhases == <<"opaque", "transparent", "light">>

\* The attachments' load operations of the base 3D pass.
Base3dOps == [color |-> "Clear(clear_color)", depth |-> "Clear(1.0)"]

base_3d_render ==
    /\ ChainReady("base_3d_render")
    /\ pc' = pc + 1
    /\ IF ~encoder.present \/ ~view.present
       THEN \* ResMut<WgpuEncoder> / Res<WgpuView> of a resource never inserted
            /\ panic' = "base_3d_render"
            /\ UNCHANGED <<encoder, passLog, drawn>>
            /\ UNCHANGED draws
       ELSE IF ~encoder.some
            THEN UNCHANGED <<panic, encoder, passLog, drawn, draws>>
            ELSE /\ encoder' = [encoder EXCEPT !.cmds = @ \o Base3dPhases]
                 /\ drawn' = InModelQuery
                 /\ passLog' = Append(passLog,
                       [pass |-> "base_3d", color |-> ColorSamples,
                        depth |-> depthTexture.samples, pipeline |-> base3dPass,
                        colorLoad |-> Base3dOps.color, depthLoad |-> Base3dOps.depth])
                 /\ IF InModelQuery /\ \E k \in 1..Len(model.meshes) : IndexPanics(k)
                    THEN \* gpu_materials.data[..]: index out of bounds, in
                         \* the first loop
                         /\ panic' = "base_3d_render"
                         /\ draws' = RecordDraws(
                               Model_draw_instanced("opaque", InstanceCount, FALSE),
                               set_vertex_buffer_1(Leftover))
                    ELSE /\ UNCHANGED panic
                         /\ draws' = Base3dDraws
    /\ UNCHANGED <<ran, window, surfaceTexture, view, pending, ops, submitted,
                   msaa, msaaChanged, depthTexture, base3dPass, eguiRenderer,
                   sizeVars, transform, model, changed, instanceBuffer,
                   gpuMaterials, gpuRead>>
    /\ UNCHANGED <<instances, markers, asset, bufferOps, rebuilt, history>>
    /\ UNCHANGED viewVars

egui_update_render_pass ==
    /\ ChainReady("egui_update_render_pass")
    /\ pc' = pc + 1
    /\ IF msaaChanged.egui
       THEN /\ eguiRenderer' = msaa
            /\ rebuilt' = Append(rebuilt, "egui_renderer")
       ELSE UNCHANGED <<eguiRenderer, rebuilt>>
    /\ msaaChanged' = [msaaChanged EXCEPT !.egui = FALSE]
    /\ UNCHANGED <<ran, panic, window, encoder, surfaceTexture, view, pending,
                   ops, submitted, msaa, depthTexture, base3dPass, passLog,
                   sizeVars,
                   syncVars>>
    /\ UNCHANGED <<instances, markers, asset, draws, bufferOps, history>>
    /\ UNCHANGED viewVars

\* A faulty variant of EguiOps: the UI pass clears the color target.
EguiClears == [color |-> "Clear(BLACK)", depth |-> "none"]

\* The attachments' load operations of the UI pass: color loaded, no depth
\* attachment.
EguiOps == [color |-> "Load", depth |-> "none"]

egui_render ==
    /\ ChainReady("egui_render")
    /\ pc' = pc + 1
    /\ IF ~encoder.present \/ ~view.present
       THEN /\ panic' = "egui_render"
            /\ UNCHANGED <<encoder, passLog>>
       ELSE /\ UNCHANGED panic
            /\ IF ~window \/ ~encoder.some
               THEN UNCHANGED <<encoder, passLog>>
               ELSE /\ encoder' = [encoder EXCEPT !.cmds = Append(@, "ui")]
                    /\ passLog' = Append(passLog,
                          [pass |-> "egui", color |-> ColorSamples,
                           depth |-> 0, pipeline |-> eguiRenderer,
                           colorLoad |-> EguiOps.color, depthLoad |-> EguiOps.depth])
    /\ UNCHANGED <<ran, window, surfaceTexture, view, pending, ops, submitted,
                   msaa, msaaChanged, depthTexture, base3dPass, eguiRenderer,
                   sizeVars,
                   syncVars>>
    /\ UNCHANGED newVars
    /\ UNCHANGED viewVars

\* A faulty variant of Option_take: as_mut() leaves the Option in place.
Option_as_mut(option) == option

\* Option::take on a resource's field: the resource is left holding None.
Option_take(option) == [option EXCEPT !.some = FALSE]

\* queue.submit: the writes queued by write_buffer land before the command
\* buffer runs, so the draws read the buffers as last written.
QueueSubmit ==
    [submitted |-> TRUE, drawn |-> drawn,
     instance |-> instanceBuffer.rows,
     material |-> [i \in 1..Len(gpuMaterials.data) |-> gpuMaterials.data[i].buffer],
     transform |-> transform, materials |-> model.materials]

end_render ==
    /\ ChainReady("end_render")
    /\ pc' = pc + 1
    /\ IF ~encoder.present \/ ~surfaceTexture.present
       THEN /\ panic' = "end_render"
            /\ UNCHANGED <<encoder, surfaceTexture, ops, submitted, gpuRead>>
       ELSE IF ~window
       THEN UNCHANGED <<panic, encoder, surfaceTexture, ops, submitted, gpuRead>>
       ELSE IF encoder.some
       THEN \* encoder.0.take(), submit, output.0.take().unwrap().present()
            /\ encoder' = [Option_take(encoder) EXCEPT !.cmds = <<>>]
            /\ submitted' = Append(submitted, encoder.cmds)
            /\ gpuRead' = QueueSubmit
            /\ IF surfaceTexture.some
               THEN /\ surfaceTexture' = Option_take(surfaceTexture)
                    /\ ops' = ops \o <<"submit", "present">>
                    /\ UNCHANGED panic
               ELSE /\ ops' = Append(ops, "submit")
                    /\ panic' = "end_render"
                    /\ UNCHANGED surfaceTexture
       ELSE \* log::warn!("No encoder found")
            UNCHANGED <<panic, encoder, surfaceTexture, ops, submitted, gpuRead>>
    /\ UNCHANGED <<ran, window, view, pending, msaaVars, sizeVars, transform,
                   model, changed, instanceBuffer, gpuMaterials, drawn>>
    /\ UNCHANGED newVars
    /\ UNCHANGED viewVars

(***************************************************************************)
(* Systems the plugins add with no ordering against the chain.             *)
(***************************************************************************)
\* The attachments' load operations of the wireframe pass: color and depth
\* are loaded.
WireframeOps == [color |-> "Load", depth |-> "Load"]

\* A faulty variant of WireframePipeline: the lines write their depth.
WireframeWritesDepth ==
    [depth_write_enabled |-> TRUE, depth_compare |-> "Less",
     blend |-> "None", polygon_mode |-> "Line"]

\* WireframePhase::from_world: the pipeline of the wireframe pass.
WireframePipeline ==
    [depth_write_enabled |-> FALSE, depth_compare |-> "Less",
     blend |-> "None", polygon_mode |-> "Line"]

\* WireframePhase's model_query: a Model and an InstanceBuffer, With<Wireframe>,
\* Without<Light>.
InWireframeQuery ==
    /\ model.present /\ instanceBuffer.present
    /\ markers.wireframe /\ ~markers.light

\* The draws of WireframePhase::render: every mesh of the entity, over the
\* range of its Instances, or one instance.
WireframeDraws ==
    IF InWireframeQuery
    THEN [k \in 1..Len(model.meshes) |->
            [phase |-> "wireframe", mesh |-> k, material |-> 0,
             instances |-> IF instances.present THEN Len(instances.list) ELSE 1]]
    ELSE <<>>

wireframe_render ==
    /\ FreeReady("wireframe_render")
    /\ ran' = ran \cup {"wireframe_render"}
    /\ IF ~encoder.present
       THEN panic' = "wireframe_render" /\ UNCHANGED <<encoder, passLog, draws>>
       ELSE /\ UNCHANGED panic
            /\ IF encoder.some
               THEN /\ encoder' = [encoder EXCEPT !.cmds = Append(@, "wireframe")]
                    /\ draws' = draws \o RecordDraws(WireframeDraws,
                                               set_vertex_buffer_1(Leftover))
                    /\ passLog' = Append(passLog,
                          [pass |-> "wireframe", color |-> ColorSamples,
                           depth |-> depthTexture.samples,
                           pipeline |-> ColorSamples,
                           colorLoad |-> WireframeOps.color,
                           depthLoad |-> WireframeOps.depth])
               ELSE UNCHANGED <<encoder, passLog, draws>>
    /\ UNCHANGED <<pc, window, surfaceTexture, view, pending, ops, submitted,
                   msaa, msaaChanged, depthTexture, base3dPass, eguiRenderer,
                   sizeVars, syncVars>>
    /\ UNCHANGED <<instances, markers, asset, bufferOps, rebuilt, history>>
    /\ UNCHANGED viewVars

\* settings_ui's Msaa buttons: a click writes msaa.samples (0: no click).
settings_ui ==
    /\ FreeReady("settings_ui")
    /\ ran' = ran \cup {"settings_ui"}
    /\ \E clicked \in SampleCounts \cup {0} :
          IF clicked = 0
          THEN UNCHANGED <<msaa, msaaChanged>>
          ELSE /\ msaa' = clicked
               /\ msaaChanged' = [depth |-> TRUE, base |-> TRUE, egui |-> TRUE]
    /\ UNCHANGED <<pc, panic, window, encoder, surfaceTexture, view, pending,
                   ops, submitted, depthTexture, base3dPass, eguiRenderer,
                   passLog, sizeVars,
                   syncVars>>
    /\ UNCHANGED newVars
    /\ UNCHANGED viewVars

\* A faulty variant of Projection_resize: height over width.
InverseAspect(width, height) == Ratio(height, width)

\* Projection::resize
Projection_resize(width, height) == Ratio(width, height)

\* A faulty variant of WgpuRenderer_resize: the size is stored unguarded.
Unguarded_resize(cfg, width, height) == <<width, height>>

\* WgpuRenderer::resize: the new config, or the old one for a zero dimension.
WgpuRenderer_resize(cfg, width, height) ==
    IF width > 0 /\ height > 0 THEN <<width, height>> ELSE cfg

\* One iteration of resize's loop over the events, on the resources it writes.
ResizeBody(r) ==
    LET width == winSize[1]
        height == winSize[2]
        cfg == WgpuRenderer_resize(r.config, width, height)
    IN  [aspect |-> Projection_resize(width, height),
         cameraUniform |-> Projection_resize(width, height),
         config |-> cfg,
         configured |-> r.configured + (IF width > 0 /\ height > 0 THEN 1 ELSE 0),
         depthTexture |-> create_depth_texture(cfg, msaa),
         screenSize |-> <<width, height>>]

RECURSIVE ResizeLoop(_, _)
ResizeLoop(r, n) == IF n = 0 THEN r ELSE ResizeLoop(ResizeBody(r), n - 1)

resize ==
    /\ FreeReady("resize")
    /\ ran' = ran \cup {"resize"}
    /\ IF resizeEvents > 0 /\ ~window
       THEN \* windows.get(event.window).expect("window not found")
            /\ panic' = "resize"
            /\ UNCHANGED <<config, aspect, cameraUniform, depthTexture, screenSize,
                           resizeEvents, resizeLog, rebuilt, camera,
                           viewPosition>>
       ELSE LET r == ResizeLoop([aspect |-> aspect, cameraUniform |-> cameraUniform,
                                 config |-> config, configured |-> 0,
                                 depthTexture |-> depthTexture,
                                 screenSize |-> screenSize], resizeEvents)
            IN  /\ aspect' = r.aspect
                /\ cameraUniform' = r.cameraUniform
                /\ config' = r.config
                /\ depthTexture' = r.depthTexture
                /\ screenSize' = r.screenSize
                /\ resizeLog' = [events |-> resizeEvents, at |-> pc,
                                 configured |-> r.configured]
                /\ resizeEvents' = 0
                /\ rebuilt' = rebuilt \o [i \in 1..resizeEvents |-> "depth_texture"]
                /\ IF resizeEvents > 0
                   THEN \* camera.projection.resize through ResMut<Camera>,
                        \* camera_uniform.update_view_proj(&camera)
                        /\ camera' = [camera EXCEPT !.changed = TRUE]
                        /\ viewPosition' = camera.eye
                   ELSE UNCHANGED <<camera, viewPosition>>
                /\ UNCHANGED panic
    /\ UNCHANGED <<pc, window, encoder, surfaceTexture, view, pending, ops,
                   submitted, msaa, msaaChanged, base3dPass, eguiRenderer, passLog,
                   winSize, syncVars>>
    /\ UNCHANGED <<instances, markers, asset, draws, bufferOps, history>>
    /\ UNCHANGED <<velocity, flyInput, cameraBuffer, lights, lightBuffer,
                   supported, format>>

(***************************************************************************)
(* The host: events delivered between two frames, and the frame's end.     *)
(***************************************************************************)
BetweenFrames == panic = "" /\ pc = 0 /\ ran = {}

window_closed ==
    /\ BetweenFrames
    /\ window
    /\ window' = FALSE
    /\ UNCHANGED <<pc, ran, panic, encoder, surfaceTexture, view, pending, ops,
                   submitted, msaaVars, sizeVars,
                   syncVars>>
    /\ UNCHANGED newVars
    /\ UNCHANGED viewVars

\* The host delivers a WindowResized event: the window has a new size, with
\* its width and height among dims.
WindowResized(dims) ==
    /\ BetweenFrames
    /\ window
    /\ resizeEvents < MaxEvents
    /\ \E width \in dims, height \in dims :
          /\ <<width, height>> # winSize
          /\ winSize' = <<width, height>>
    /\ resizeEvents' = resizeEvents + 1
    /\ UNCHANGED <<orchVars, msaaVars, config, aspect, cameraUniform, screenSize,
                   resizeLog, syncVars>>
    /\ UNCHANGED newVars
    /\ UNCHANGED viewVars

window_resized == WindowResized(Dims)

\* Every system of the frame ran: the schedule's final flush applies what is
\* still queued, and the next frame starts.
FrameEnd(systems) ==
    /\ panic = ""
    /\ pc = Len(Chain)
    /\ ran = systems
    /\ ApplyCommands
    /\ pc' = 0
    /\ ran' = {}
    /\ ops' = <<>>
    /\ submitted' = <<>>
    /\ passLog' = <<>>
    /\ resizeLog' = NoResize
    /\ drawn' = FALSE
    /\ gpuRead' = NoRead
    /\ draws' = <<>>
    /\ bufferOps' = <<>>
    /\ rebuilt' = <<>>
    /\ history' = [mutated |-> pending.model.queued, stable |-> ~history.mutated]
    /\ UNCHANGED <<panic, window, msaa, msaaChanged, depthTexture, base3dPass,
                   eguiRenderer, winSize, resizeEvents, config, aspect,
                   cameraUniform, screenSize, transform>>
    /\ UNCHANGED <<instances, markers, asset>>
    /\ flyInput' = [pressed |-> FALSE, keys |-> {},
                    keyFrames |-> flyInput.keyFrames]
    /\ UNCHANGED <<camera, velocity, viewPosition, cameraBuffer, lights,
                   lightBuffer, supported, format>>

\* The systems with no place in the chain, per specification.
FrameDone == FrameEnd({"wireframe_render", "settings_ui"})

\* The frame orchestrator, the passes and the multisampling state.
Next ==
    \/ update_depth_texture
    \/ apply_system_buffers
    \/ start_render
    \/ base_3d_update_render_pass
    \/ base_3d_render
    \/ egui_update_render_pass
    \/ egui_render
    \/ end_render
    \/ wireframe_render
    \/ settings_ui
    \/ window_closed
    \/ FrameDone

Spec == Init /\ [][Next]_vars

\* The same frame with the resize system and the window's resize events.
ResizeFrameDone == FrameEnd({"wireframe_render", "resize"})

NextResize ==
    \/ update_depth_texture
    \/ apply_system_buffers
    \/ start_render
    \/ base_3d_update_render_pass
    \/ base_3d_render
    \/ egui_update_render_pass
    \/ egui_render
    \/ end_render
    \/ wireframe_render
    \/ resize
    \/ window_closed
    \/ window_resized
    \/ ResizeFrameDone

SpecResize == Init /\ [][NextResize]_vars

(***************************************************************************)
(* The per-entity GPU buffers.  The scene is one entity with a Model (one  *)
(* material) and a Transform; the host's update_model and update_materials *)
(* write its Transform and its material, the renderer's four unordered     *)
(* systems create and refresh its buffers.                                 *)
(***************************************************************************)
\* The rest of the frame's state, which the buffer systems leave alone.
frameVars == <<pc, panic, window, encoder, surfaceTexture, view, ops, submitted,
               msaaVars, sizeVars, drawn, gpuRead>>

\* update_model: when ModelSettings changed (scale 0: it did not), writes the
\* entity's Transform through a mutable borrow.
update_model ==
    /\ FreeReady("update_model")
    /\ ran' = ran \cup {"update_model"}
    /\ \E scale \in 0..MaxScale :
          IF scale = 0 \/ ~(transform.present /\ model.present)
          THEN UNCHANGED <<transform, changed, history>>
          ELSE /\ transform' = [transform EXCEPT !.scale = scale]
               /\ changed' = [changed EXCEPT !.transform = TRUE]
               /\ history' = [history EXCEPT !.mutated = TRUE]
    /\ UNCHANGED <<frameVars, pending, model, instanceBuffer, gpuMaterials>>
    /\ UNCHANGED <<instances, markers, asset, draws, bufferOps, rebuilt>>
    /\ UNCHANGED viewVars

\* update_materials: when GlobalMaterialSettings changed, writes every
\* material's gloss through a mutable borrow of the Model.
update_materials ==
    /\ FreeReady("update_materials")
    /\ ran' = ran \cup {"update_materials"}
    /\ \E settings \in [is_changed : BOOLEAN, gloss : 0..MaxGloss] :
          IF ~settings.is_changed \/ ~model.present
          THEN UNCHANGED <<model, changed, history>>
          ELSE /\ model' = [model EXCEPT !.materials =
                    [i \in 1..Len(@) |-> [@[i] EXCEPT !.gloss = settings.gloss]]]
               /\ changed' = [changed EXCEPT !.model = TRUE]
               /\ history' = [history EXCEPT !.mutated = TRUE]
    /\ UNCHANGED <<frameVars, pending, transform, instanceBuffer, gpuMaterials>>
    /\ UNCHANGED <<instances, markers, asset, draws, bufferOps, rebuilt>>
    /\ UNCHANGED viewVars

create_instance_buffer ==
    /\ FreeReady("create_instance_buffer")
    /\ ran' = ran \cup {"create_instance_buffer"}
    /\ changed' = [changed EXCEPT !.instance_added = FALSE]
    /\ IF /\ changed.instance_added
          /\ model.present /\ (transform.present \/ instances.present)
          /\ ~instanceBuffer.present
       THEN \* device.create_buffer_init, commands.entity(entity).insert
            /\ pending' = [pending EXCEPT !.instanceBuffer =
                              [queued |-> TRUE, data |-> InstanceData]]
            /\ bufferOps' = Append(bufferOps, "create_instance_buffer")
       ELSE UNCHANGED <<pending, bufferOps>>
    /\ UNCHANGED <<frameVars, transform, model, instanceBuffer, gpuMaterials>>
    /\ UNCHANGED <<instances, markers, asset, draws, rebuilt, history>>
    /\ UNCHANGED viewVars

\* queue.write_buffer at offset 0: the data replaces the head of the buffer,
\* what lies behind it stays.
write_buffer(rows, data) ==
    IF Len(data) > Len(rows)
    THEN rows    \* the copy would overrun the buffer: a validation error
    ELSE data \o SubSeq(rows, Len(data) + 1, Len(rows))

\* update_instance_buffer without its Changed filter.
WriteUnchanged ==
    /\ FreeReady("update_instance_buffer")
    /\ ran' = ran \cup {"update_instance_buffer"}
    /\ changed' = [changed EXCEPT !.transform = FALSE]
    /\ IF instanceBuffer.present
       THEN /\ instanceBuffer' = [instanceBuffer EXCEPT
                                     !.rows = write_buffer(@, InstanceData)]
            /\ bufferOps' = Append(bufferOps, "write_instance_buffer")
       ELSE UNCHANGED <<instanceBuffer, bufferOps>>
    /\ UNCHANGED <<frameVars, pending, transform, model, gpuMaterials>>
    /\ UNCHANGED <<instances, markers, asset, draws, rebuilt, history>>
    /\ UNCHANGED viewVars

update_instance_buffer ==
    /\ FreeReady("update_instance_buffer")
    /\ ran' = ran \cup {"update_instance_buffer"}
    /\ changed' = [changed EXCEPT !.transform = FALSE]
    /\ IF instanceBuffer.present /\ changed.transform
       THEN \* queue.write_buffer(&buffer.0, 0, cast_slice(&data)); the
            \* device's uncaptured validation error ends the process
            /\ instanceBuffer' = [instanceBuffer EXCEPT
                                     !.rows = write_buffer(@, InstanceData)]
            /\ bufferOps' = Append(bufferOps, "write_instance_buffer")
            /\ panic' = IF Len(InstanceData) > Len(instanceBuffer.rows)
                        THEN "update_instance_buffer" ELSE panic
       ELSE UNCHANGED <<instanceBuffer, bufferOps, panic>>
    /\ UNCHANGED <<pc, window, encoder, surfaceTexture, view, ops, submitted,
                   msaaVars, sizeVars, drawn, gpuRead>>
    /\ UNCHANGED <<pending, transform, model, gpuMaterials>>
    /\ UNCHANGED <<instances, markers, asset, draws, rebuilt, history>>
    /\ UNCHANGED viewVars

\* One element of GpuModelMaterials.data, as create_material_uniform builds
\* it: the uniform, the buffer holding its bytes, and the bind group, of which
\* the normal texture's view is kept (the material's, or the white default).
GpuMaterial(material) ==
    [uniform |-> MaterialUniform(material),
     buffer |-> UniformBytes(MaterialUniform(material)),
     normal_view |-> IF material.normal_texture THEN "normal_texture"
                     ELSE "default_white"]

create_material_uniform ==
    /\ FreeReady("create_material_uniform")
    /\ ran' = ran \cup {"create_material_uniform"}
    /\ changed' = [changed EXCEPT !.material_added = FALSE]
    /\ IF changed.material_added /\ model.present /\ ~gpuMaterials.present
       THEN \* per material: create_buffer_init, create_bind_group
            /\ pending' = [pending EXCEPT !.gpuMaterials =
                  [queued |-> TRUE,
                   data |-> [i \in 1..Len(model.materials) |->
                                GpuMaterial(model.materials[i])]]]
            /\ bufferOps' = bufferOps \o
                  [i \in 1..Len(model.materials) |-> "create_material_buffer"]
       ELSE UNCHANGED <<pending, bufferOps>>
    /\ UNCHANGED <<frameVars, transform, model, instanceBuffer, gpuMaterials>>
    /\ UNCHANGED <<instances, markers, asset, draws, rebuilt, history>>
    /\ UNCHANGED viewVars

update_material_buffer ==
    /\ FreeReady("update_material_buffer")
    /\ ran' = ran \cup {"update_material_buffer"}
    /\ changed' = [changed EXCEPT !.model = FALSE]
    /\ IF model.present /\ gpuMaterials.present /\ changed.model
       THEN \* per material: write the uniform, queue.write_buffer; the bind
            \* group stays (the model's materials never change in number)
            /\ gpuMaterials' = [gpuMaterials EXCEPT !.data =
                  [i \in 1..Len(@) |->
                      [@[i] EXCEPT
                          !.uniform = MaterialUniform(model.materials[i]),
                          !.buffer = UniformBytes(MaterialUniform(model.materials[i]))]]]
            /\ bufferOps' = bufferOps \o
                  [i \in 1..Len(model.materials) |-> "write_material_buffer"]
       ELSE UNCHANGED <<gpuMaterials, bufferOps>>
    /\ UNCHANGED <<frameVars, pending, transform, model, instanceBuffer>>
    /\ UNCHANGED <<instances, markers, asset, draws, rebuilt, history>>
    /\ UNCHANGED viewVars

\* The startup schedule spawned the entity: every system sees its components
\* as added and changed.
Scene ==
    /\ \E scale \in 1..MaxScale :
          transform = [present |-> TRUE, translation |-> <<0, 0, 0>>,
                       scale |-> scale]
    /\ \E gloss \in 0..MaxGloss : model = Shape(gloss)
    /\ changed = [transform |-> TRUE, instance_added |-> TRUE,
                  material_added |-> TRUE, model |-> TRUE]
    /\ instanceBuffer = NoInstanceBuffer
    /\ gpuMaterials = NoGpuMaterials
    /\ instances = [present |-> FALSE, list |-> <<>>]
    /\ markers = NoMarkers
    /\ asset = "none"

InitSync ==
    /\ \E samples \in SampleCounts : InitWith(<<1, 1>>, samples)
    /\ Scene

SyncFrameDone ==
    FrameEnd(
        {"wireframe_render", "update_model", "update_materials",
         "create_instance_buffer", "update_instance_buffer",
         "create_material_uniform", "update_material_buffer"})

NextSync ==
    \/ update_depth_texture
    \/ apply_system_buffers
    \/ start_render
    \/ base_3d_update_render_pass
    \/ base_3d_render
    \/ egui_update_render_pass
    \/ egui_render
    \/ end_render
    \/ wireframe_render
    \/ update_model
    \/ update_materials
    \/ create_instance_buffer
    \/ update_instance_buffer
    \/ create_material_uniform
    \/ update_material_buffer
    \/ SyncFrameDone

SpecSync == InitSync /\ [][NextSync]_vars

(***************************************************************************)
(* Properties of the frame orchestrator and of the pass order.             *)
(***************************************************************************)
Range(seq) == {seq[i] : i \in 1..Len(seq)}

Count(seq, x) == Cardinality({i \in 1..Len(seq) : seq[i] = x})

\* Every occurrence of `a` in seq comes before every occurrence of `b`.
Precedes(seq, a, b) ==
    \A i \in 1..Len(seq), j \in 1..Len(seq) : (seq[i] = a /\ seq[j] = b) => i < j

Acquired == "acquire_ok" \in Range(ops)

FrameOver == pc = Len(Chain)

\* C1: in a frame in which start_render acquires a surface texture, exactly
\* one encoder is opened, end_render submits exactly once and then presents
\* exactly once, and after end_render WgpuEncoder and WgpuSurfaceTexture both
\* hold None; no frame submits or presents twice.
C1_SubmitPresentOnce ==
    /\ Count(ops, "create_command_encoder") <= 1
    /\ Count(ops, "submit") <= 1
    /\ Count(ops, "present") <= 1
    /\ (Acquired /\ FrameOver) =>
          /\ Count(ops, "create_command_encoder") = 1
          /\ Count(ops, "submit") = 1
          /\ Count(ops, "present") = 1
          /\ Precedes(ops, "create_command_encoder", "submit")
          /\ Precedes(ops, "submit", "present")
          /\ Len(submitted) = 1
          /\ ~encoder.some
          /\ ~surfaceTexture.some

\* An acquired frame reached its end and was presented.
C1_Witness ==
    /\ Acquired /\ FrameOver
    /\ "present" \in Range(ops)

\* The command sequences recorded so far this frame: the open encoder's and
\* the submitted ones.
Recorded == {encoder.cmds} \cup Range(submitted)

\* C3: the passes record into the shared encoder in a fixed order: opaque
\* draws before transparent draws, and both before the wireframe pass and
\* the UI overlay; nothing is recorded before the frame's opaque draws.
C3_PassOrder ==
    \A cmds \in Recorded :
        /\ Precedes(cmds, "opaque", "transparent")
        /\ Precedes(cmds, "opaque", "wireframe")
        /\ Precedes(cmds, "opaque", "ui")
        /\ Precedes(cmds, "transparent", "wireframe")
        /\ Precedes(cmds, "transparent", "ui")
        /\ (cmds # <<>> => cmds[1] = "opaque")

\* A frame was submitted with all of its passes recorded.
C3_Witness ==
    \E cmds \in Range(submitted) :
        {"opaque", "transparent", "wireframe", "ui"} \subseteq Range(cmds)

Reconfigured == "configure" \in Range(ops)

\* C5: when acquisition returns "outdated" once and then succeeds, the surface
\* is reconfigured exactly once and the frame is still rendered: an encoder is
\* opened, the passes record, the frame is submitted and presented.
C5_OutdatedStillRenders ==
    (Reconfigured /\ Acquired) =>
        /\ Count(ops, "configure") = 1
        /\ Count(ops, "create_command_encoder") = 1
        /\ pc >= 4 => encoder.some \/ "submit" \in Range(ops)
        /\ FrameOver =>
              /\ panic = ""
              /\ "submit" \in Range(ops) /\ "present" \in Range(ops)
              /\ \E cmds \in Range(submitted) :
                    {"opaque", "transparent", "ui"} \subseteq Range(cmds)

\* A frame acquired on the retry reached its end.
C5_Witness ==
    /\ Reconfigured /\ Acquired /\ FrameOver
    /\ ops[1] = "acquire_outdated"


\* C4: whenever a pass is recorded, the depth texture's sample count, the
\* color target's sample count and the sample count of the pass's pipeline
\* are all equal, wherever in the frame another system writes Msaa.samples.
C4_SampleCountsAgree ==
    \A i \in 1..Len(passLog) :
        /\ passLog[i].color = passLog[i].pipeline
        /\ passLog[i].depth # 0 => passLog[i].depth = passLog[i].color

\* C6: when acquisition fails with an error other than "outdated", no encoder
\* is opened, no pass records, nothing is submitted or presented, and the
\* process lives on to render the next frame.
C6_FailedFrameSkipped ==
    ("acquire_err" \in Range(ops) /\ ~Reconfigured) =>
        /\ "create_command_encoder" \notin Range(ops)
        /\ passLog = <<>>
        /\ submitted = <<>>
        /\ "submit" \notin Range(ops) /\ "present" \notin Range(ops)
        /\ panic = ""

RenderChain == {"base_3d_render", "egui_render", "end_render"}

\* C7: a frame in which no encoder was opened never makes the render chain
\* panic: base_3d::render, the UI render and end_render all complete, in
\* every frame, the first one included.
C7_NoEncoderNoPanic ==
    "create_command_encoder" \notin Range(ops) => panic \notin RenderChain

(***************************************************************************)
(* Properties of the per-entity buffers.                                   *)
(***************************************************************************)
\* C2: in every submitted frame that draws the entity, the instance buffer
\* and the material uniform buffer the draws read equal the raw form of the
\* entity's Transform and material at that moment, under every order of the
\* unordered systems and the chain.
C2_BuffersCurrentAtSubmit ==
    (gpuRead.submitted /\ gpuRead.drawn) =>
        /\ gpuRead.instance = <<to_raw(gpuRead.transform)>>
        /\ gpuRead.material =
              [i \in 1..Len(gpuRead.materials) |->
                  UniformBytes(MaterialUniform(gpuRead.materials[i]))]

Creators == {"create_instance_buffer", "create_material_uniform"}

\* C8: in every frame the two creation systems ran, and the components they
\* insert are applied, before start_render acquires.
C8_CreatedBeforeAcquire ==
    pc >= 3 =>
        /\ Creators \subseteq ran
        /\ ~pending.instanceBuffer.queued
        /\ ~pending.gpuMaterials.queued

(***************************************************************************)
(* Properties of the resize system.                                        *)
(***************************************************************************)
\* C9: in a frame in which resize reads a WindowResized event, it ran before
\* start_render, the third system of the chain; it never runs between the
\* acquire and the passes.
C9_ResizeBeforeAcquire ==
    resizeLog.events > 0 => resizeLog.at < 3

Processed == resizeLog.events > 0 /\ winSize[1] > 0 /\ winSize[2] > 0

\* C10: after resize processed an event with width > 0 and height > 0, the
\* surface configuration has the new size, the depth texture has the
\* surface's dimensions, and the camera's aspect equals width / height.
C10_ResizeConsistent ==
    Processed =>
        /\ config = winSize
        /\ depthTexture.width = config[1] /\ depthTexture.height = config[2]
        /\ aspect[2] > 0
        /\ aspect[1] * winSize[2] = aspect[2] * winSize[1]

\* resize reconfigured the surface for a window that is not square.
C10_Witness ==
    /\ Processed
    /\ resizeLog.configured > 0
    /\ winSize[1] # winSize[2]


ZeroArea == winSize[1] = 0 \/ winSize[2] = 0

\* C11: a resize whose width or height is zero is a no-op on the renderer:
\* the surface configuration's width and height stay as they were and the
\* surface is not reconfigured.
C11_ZeroResizeNoOp ==
    [][(resizeEvents > 0 /\ resizeLog'.events > 0 /\ ZeroArea) =>
          /\ config' = config
          /\ resizeLog'.configured = 0]_vars

\* resize processed an event of a window with a zero dimension.
C11_Witness ==
    /\ resizeLog.events > 0
    /\ ZeroArea
    /\ resizeLog.configured = 0


(***************************************************************************)
(* Transform::to_raw, applied by create_instance_buffer to a Transform of  *)
(* any translation.                                                        *)
(***************************************************************************)
Translations ==
    LET range == (-MaxTranslation)..MaxTranslation
    IN  {<<x, y, z>> : x \in range, y \in range, z \in range}

SceneToRaw ==
    /\ \E t \in Translations, scale \in 1..MaxScale :
          transform = [present |-> TRUE, translation |-> t, scale |-> scale]
    /\ \E gloss \in 0..MaxGloss : model = Shape(gloss)
    /\ changed = [transform |-> TRUE, instance_added |-> TRUE,
                  material_added |-> TRUE, model |-> TRUE]
    /\ instanceBuffer = NoInstanceBuffer
    /\ gpuMaterials = NoGpuMaterials
    /\ instances = [present |-> FALSE, list |-> <<>>]
    /\ markers = NoMarkers
    /\ asset = "none"

InitToRaw ==
    /\ \E samples \in SampleCounts : InitWith(<<1, 1>>, samples)
    /\ SceneToRaw

NextToRaw ==
    \/ update_depth_texture
    \/ apply_system_buffers
    \/ create_instance_buffer

SpecToRaw == InitToRaw /\ [][NextToRaw]_vars

Identity4 ==
    << <<<<1, 1>>, <<0, 1>>, <<0, 1>>, <<0, 1>>>>,
       <<<<0, 1>>, <<1, 1>>, <<0, 1>>, <<0, 1>>>>,
       <<<<0, 1>>, <<0, 1>>, <<1, 1>>, <<0, 1>>>>,
       <<<<0, 1>>, <<0, 1>>, <<0, 1>>, <<1, 1>>>> >>

\* The 4x4 identity with -t in its fourth row.
InverseTransposeOfTranslation(t) ==
    << <<<<1, 1>>, <<0, 1>>, <<0, 1>>, <<-t[1], 1>>>>,
       <<<<0, 1>>, <<1, 1>>, <<0, 1>>, <<-t[2], 1>>>>,
       <<<<0, 1>>, <<0, 1>>, <<1, 1>>, <<-t[3], 1>>>>,
       <<<<0, 1>>, <<0, 1>>, <<0, 1>>, <<1, 1>>>> >>

TranslationMatrix(t) ==
    << <<1, 0, 0, 0>>, <<0, 1, 0, 0>>, <<0, 0, 1, 0>>, <<t[1], t[2], t[3], 1>> >>

\* The instance buffer holds the row of a Transform of scale (1, 1, 1).
UnitScaleRow ==
    /\ instanceBuffer.present
    /\ transform.present /\ transform.scale = 1

\* C20, as stated: for a Transform of scale (1, 1, 1), identity rotation and
\* any translation t, to_raw yields the translation matrix of t as model, the
\* 3x3 identity as normal and the 4x4 identity as inverse_transpose_model.
C20_RawOfTranslation ==
    UnitScaleRow =>
        /\ instanceBuffer.rows[1].model = TranslationMatrix(transform.translation)
        /\ instanceBuffer.rows[1].normal = Mat3_from_quat
        /\ instanceBuffer.rows[1].inverse_transpose_model = Identity4

\* C20, amended: the inverse_transpose_model block is the 4x4 identity with
\* -t in its fourth row (the identity only for t = 0); model is the
\* translation matrix of t and normal the 3x3 identity.
C20_RawOfTranslationAmended ==
    UnitScaleRow =>
        /\ instanceBuffer.rows[1].model = TranslationMatrix(transform.translation)
        /\ instanceBuffer.rows[1].normal = Mat3_from_quat
        /\ instanceBuffer.rows[1].inverse_transpose_model =
              InverseTransposeOfTranslation(transform.translation)
        /\ (instanceBuffer.rows[1].inverse_transpose_model = Identity4)
              <=> transform.translation = <<0, 0, 0>>

\* A row was built for a Transform of unit scale and non-zero translation.
C20_Witness ==
    /\ UnitScaleRow
    /\ transform.translation # <<0, 0, 0>>


(***************************************************************************)
(* The instance buffer of an entity with a Transform or with Instances.    *)
(***************************************************************************)
\* move_instances (examples/load_obj.rs): when the setting is on, writes the
\* y translation of every instance (the wave's height, taken equal at every
\* instance) through a mutable borrow of Instances.
move_instances ==
    /\ FreeReady("move_instances")
    /\ ran' = ran \cup {"move_instances"}
    /\ \E settings \in [move_instances : BOOLEAN,
                        height : (-MaxTranslation)..MaxTranslation] :
          IF ~settings.move_instances \/ ~instances.present
          THEN UNCHANGED <<instances, changed, history>>
          ELSE /\ instances' = [instances EXCEPT !.list =
                    [i \in 1..Len(@) |->
                        [@[i] EXCEPT !.translation[2] = settings.height]]]
               /\ changed' = [changed EXCEPT !.transform = TRUE]
               /\ history' = [history EXCEPT !.mutated = TRUE]
    /\ UNCHANGED <<frameVars, pending, transform, model, instanceBuffer,
                   gpuMaterials, markers, asset, draws, bufferOps, rebuilt>>
    /\ UNCHANGED viewVars

\* The Transforms spawn_obj gives the instances: unit scale, no translation
\* up the y axis.
InstanceLists ==
    UNION {[1..n -> {[translation |-> <<0, 0, 0>>, scale |-> 1]}] :
              n \in 0..MaxInstances}

\* An entity with a Model and exactly one of Transform and Instances.
SceneInstances ==
    /\ \/ /\ \E scale \in 1..MaxScale :
                transform = [present |-> TRUE, translation |-> <<0, 0, 0>>,
                             scale |-> scale]
          /\ instances = [present |-> FALSE, list |-> <<>>]
       \/ /\ transform = NoTransform
          /\ \E list \in InstanceLists : instances = [present |-> TRUE, list |-> list]
    /\ model = Shape(0)
    /\ changed = [transform |-> TRUE, instance_added |-> TRUE,
                  material_added |-> TRUE, model |-> TRUE]
    /\ instanceBuffer = NoInstanceBuffer
    /\ gpuMaterials = NoGpuMaterials
    /\ markers = NoMarkers
    /\ asset = "none"

InitInstances ==
    /\ \E samples \in SampleCounts : InitWith(<<1, 1>>, samples)
    /\ SceneInstances

InstancesFrameDone ==
    FrameEnd(
        {"wireframe_render", "update_model", "move_instances",
         "create_instance_buffer", "update_instance_buffer"})

NextInstances ==
    \/ update_depth_texture
    \/ apply_system_buffers
    \/ start_render
    \/ base_3d_update_render_pass
    \/ base_3d_render
    \/ egui_update_render_pass
    \/ egui_render
    \/ end_render
    \/ wireframe_render
    \/ update_model
    \/ move_instances
    \/ create_instance_buffer
    \/ update_instance_buffer
    \/ InstancesFrameDone

SpecInstances == InitInstances /\ [][NextInstances]_vars

\* The number of rows the entity's components call for.
Cardinality_rows == IF transform.present THEN 1 ELSE Len(instances.list)

\* C12: for an entity with a Model and exactly one of Transform and
\* Instances, the instance buffer, once created, holds 1 row (Transform) or
\* as many rows as the Instances list; a later write of the Transform or of
\* the Instances' content is copied into that same buffer by
\* update_instance_buffer: the buffer is not replaced and keeps its size.
C12_InstanceRows ==
    [][/\ instanceBuffer'.present =>
             Len(instanceBuffer'.rows) = Cardinality_rows
       /\ instanceBuffer.present =>
             /\ instanceBuffer'.present
             /\ instanceBuffer'.created = instanceBuffer.created
             /\ Len(instanceBuffer'.rows) = Len(instanceBuffer.rows)
       /\ ("update_instance_buffer" \in ran' \ ran /\ instanceBuffer.present
              /\ changed.transform) =>
             instanceBuffer'.rows = InstanceData]_vars

\* The buffer of a two-element Instances list holds the rows of a list that
\* was written after the buffer's creation.
C12_Witness ==
    /\ instanceBuffer.present
    /\ instances.present /\ Len(instances.list) = 2
    /\ instances.list[1].translation[2] # 0
    /\ instanceBuffer.rows = InstanceData


(***************************************************************************)
(* Idempotence of the per-entity synchronizer.                             *)
(***************************************************************************)
\* C13: when the frame before ran the four synchronizer systems and no
\* system wrote a Model, a Transform or an Instances in it or since, the
\* synchronizer's run in this frame creates no buffer and writes none.
C13_SecondRunNoOp ==
    (history.stable /\ ~history.mutated) => bufferOps = <<>>

\* The four systems ran a second time after an undisturbed frame.
C13_Witness ==
    /\ history.stable /\ ~history.mutated
    /\ {"create_instance_buffer", "update_instance_buffer",
        "create_material_uniform", "update_material_buffer"} \subseteq ran
    /\ instanceBuffer.present /\ gpuMaterials.present


(***************************************************************************)
(* The draws of the base 3D pass: which entity, which sub-mesh, which      *)
(* phase.                                                                  *)
(***************************************************************************)
MaxMeshes == 2
MaxMaterials == 2

\* Material alphas: below one, one, above one.
Alphas == {<<1, 2>>, <<1, 1>>, <<3, 2>>}

SeqsUpTo(S, n) == UNION {[1..k -> S] : k \in 1..n}

\* The models the loaders and the shapes build: meshes whose material_id is
\* None or an index the file gave, and materials of any alpha.
Models ==
    {[present |-> TRUE, meshes |-> meshes, materials |-> materials] :
        meshes \in SeqsUpTo({None} \cup {Some(id) : id \in 0..(MaxMaterials - 1)},
                            MaxMeshes),
        materials \in SeqsUpTo({[Material(0) EXCEPT !.alpha = a] : a \in Alphas},
                               MaxMaterials)}

\* One entity as the startup schedule or a bundle spawned it: a Model, with
\* a Transform, with Instances or with neither, and its marker components.
SceneDraw ==
    /\ model \in Models
    /\ \/ /\ transform = [present |-> TRUE, translation |-> <<0, 0, 0>>, scale |-> 1]
          /\ instances = [present |-> FALSE, list |-> <<>>]
       \/ /\ transform = NoTransform
          /\ instances = [present |-> TRUE,
                          list |-> [i \in 1..MaxInstances |->
                                      [translation |-> <<0, 0, 0>>, scale |-> 1]]]
       \/ /\ transform = NoTransform
          /\ instances = [present |-> FALSE, list |-> <<>>]
    /\ \E light \in BOOLEAN, transparent \in BOOLEAN :
          markers = [NoMarkers EXCEPT !.light = light,
                                      !.transparent = transparent]
    /\ changed = [transform |-> TRUE, instance_added |-> TRUE,
                  material_added |-> TRUE, model |-> TRUE]
    /\ instanceBuffer = NoInstanceBuffer
    /\ gpuMaterials = NoGpuMaterials
    /\ asset = "none"

InitDraw ==
    /\ InitWith(<<1, 1>>, 1)
    /\ SceneDraw

DrawFrameDone ==
    FrameEnd(
        {"wireframe_render", "create_instance_buffer",
         "create_material_uniform"})

NextDraw ==
    \/ update_depth_texture
    \/ apply_system_buffers
    \/ start_render
    \/ base_3d_update_render_pass
    \/ base_3d_render
    \/ egui_update_render_pass
    \/ egui_render
    \/ end_render
    \/ wireframe_render
    \/ create_instance_buffer
    \/ create_material_uniform
    \/ DrawFrameDone

SpecDraw == InitDraw /\ [][NextDraw]_vars

\* The alpha of the Material a sub-mesh names.
AlphaOf(k) == model.materials[unwrap_or(model.meshes[k], 0) + 1].alpha

\* base_3d::render ran to its end in this frame, and the entity went through
\* its opaque and transparent loops.
Rendered == "base_3d_render" \in ChainDone /\ panic = "" /\ drawn

\* C14: in a frame where the model is drawn, each sub-mesh has a draw in the
\* opaque phase iff its material's alpha is 1.0 and a draw in the transparent
\* phase iff its material's alpha is below 1.0, and none has both.
C14_PhaseByAlpha ==
    Rendered =>
        \A k \in 1..Len(model.meshes) :
            /\ (\E i \in 1..Len(draws) : draws[i].phase = "opaque" /\ draws[i].mesh = k)
                  <=> AlphaOf(k) = <<1, 1>>
            /\ (\E i \in 1..Len(draws) : draws[i].phase = "transparent" /\ draws[i].mesh = k)
                  <=> Less(AlphaOf(k), <<1, 1>>)
            /\ Cardinality({i \in 1..Len(draws) : draws[i].mesh = k}) <= 1

\* A model with materials of alpha 1.0 and 0.5 was drawn: its first sub-mesh
\* in the opaque phase, its second in the transparent phase.
C14_Witness ==
    /\ Rendered
    /\ Len(model.meshes) = 2
    /\ AlphaOf(1) = <<1, 1>> /\ AlphaOf(2) = <<1, 2>>
    /\ [i \in 1..Len(draws) |-> <<draws[i].phase, draws[i].mesh, draws[i].material>>]
          = <<<<"opaque", 1, 0>>, <<"transparent", 2, 1>>>>


\* base_3d::render just ran, with an encoder, and returned: the components
\* are those its queries saw.
JustRendered ==
    /\ pc > 0 /\ Chain[pc] = "base_3d_render"
    /\ panic = "" /\ encoder.present /\ encoder.some

\* The entity has a draw in the opaque or in the transparent phase.
DrawnInPhases ==
    \E i \in 1..Len(draws) : draws[i].phase \in {"opaque", "transparent"}

LoadedMaterials ==
    {[alpha |-> <<1, 1>>, gloss |-> gloss, normal_texture |-> normal] :
        gloss \in 0..MaxGloss, normal \in BOOLEAN}

SceneMaterial ==
    /\ transform = [present |-> TRUE, translation |-> <<0, 0, 0>>, scale |-> 1]
    /\ \E materials \in SeqsUpTo(LoadedMaterials, MaxMaterials) :
          model = [present |-> TRUE,
                   meshes |-> [k \in 1..Len(materials) |-> Some(k - 1)],
                   materials |-> materials]
    /\ changed = [transform |-> TRUE, instance_added |-> TRUE,
                  material_added |-> TRUE, model |-> TRUE]
    /\ instanceBuffer = NoInstanceBuffer
    /\ gpuMaterials = NoGpuMaterials
    /\ instances = [present |-> FALSE, list |-> <<>>]
    /\ markers = NoMarkers
    /\ asset = "none"

InitMaterial ==
    /\ InitWith(<<1, 1>>, 1)
    /\ SceneMaterial

MaterialFrameDone ==
    FrameEnd(
        {"wireframe_render", "update_materials", "create_material_uniform",
         "update_material_buffer"})

NextMaterial ==
    \/ update_depth_texture
    \/ apply_system_buffers
    \/ start_render
    \/ base_3d_update_render_pass
    \/ base_3d_render
    \/ egui_update_render_pass
    \/ egui_render
    \/ end_render
    \/ wireframe_render
    \/ update_materials
    \/ create_material_uniform
    \/ update_material_buffer
    \/ MaterialFrameDone

SpecMaterial == InitMaterial /\ [][NextMaterial]_vars

\* Bit 0 of the uniform's flags.
HasNormalMapBit(u) == (u.flags \div USE_NORMAL_MAP) % 2 = 1

\* C16: once the bundle exists, after its creation and after every update,
\* each material's 'has normal map' bit is set iff the Material has a normal
\* texture, and the bound normal texture is the white placeholder iff it has
\* none.
C16_NormalMapFlag ==
    gpuMaterials.present =>
        /\ Len(gpuMaterials.data) = Len(model.materials)
        /\ \A i \in 1..Len(model.materials) :
              /\ HasNormalMapBit(gpuMaterials.data[i].uniform)
                    <=> model.materials[i].normal_texture
              /\ gpuMaterials.data[i].buffer[10] = gpuMaterials.data[i].uniform.flags
              /\ (gpuMaterials.data[i].normal_view = "default_white")
                    <=> ~model.materials[i].normal_texture

\* update_material_buffer rewrote the bundles of a model of which one
\* material has a normal texture and one has none.
C16_Witness ==
    /\ gpuMaterials.present
    /\ "write_material_buffer" \in Range(bufferOps)
    /\ \E i, j \in 1..Len(model.materials) :
          /\ model.materials[i].normal_texture
          /\ ~model.materials[j].normal_texture


(***************************************************************************)
(* Assets that load in the background: the entity is spawned with a handle *)
(* and a Transform, its Model comes from the spawner once the asset is     *)
(* there.                                                                  *)
(***************************************************************************)
\* The Model the spawner builds from the loaded asset: one mesh, one
\* material.
LoadedModel ==
    [present |-> TRUE, meshes |-> <<Some(0)>>, materials |-> <<Material(1)>>]

\* ObjLoader::load / GltfLoader::load finish on the asset server's task:
\* Assets::get(handle) answers Some from now on.
asset_loaded ==
    /\ panic = ""
    /\ asset = "loading"
    /\ asset' = "ready"
    /\ UNCHANGED <<orchVars, msaaVars, sizeVars, syncVars>>
    /\ UNCHANGED <<instances, markers, draws, bufferOps, rebuilt, history>>
    /\ UNCHANGED viewVars

\* A faulty variant of obj_spawner: the query has no Without<Model>.
SpawnAgain ==
    /\ FreeReady("obj_spawner")
    /\ ran' = ran \cup {"obj_spawner"}
    /\ IF asset = "ready"
       THEN pending' = [pending EXCEPT !.model =
                           [queued |-> TRUE, data |-> LoadedModel]]
       ELSE UNCHANGED pending
    /\ UNCHANGED <<frameVars, transform, model, changed, instanceBuffer,
                   gpuMaterials>>
    /\ UNCHANGED newVars
    /\ UNCHANGED viewVars

\* obj_spawner (gltf_spawner is the same system over Handle<LoadedGltf>):
\* for the entity with a handle and without a Model, when the asset is
\* loaded, queue the insert of the Model.
obj_spawner ==
    /\ FreeReady("obj_spawner")
    /\ ran' = ran \cup {"obj_spawner"}
    /\ IF asset = "ready" /\ ~model.present
       THEN pending' = [pending EXCEPT !.model =
                           [queued |-> TRUE, data |-> LoadedModel]]
       ELSE UNCHANGED pending
    /\ UNCHANGED <<frameVars, transform, model, changed, instanceBuffer,
                   gpuMaterials>>
    /\ UNCHANGED newVars
    /\ UNCHANGED viewVars

\* settings_ui spawned the entity: a handle whose asset is loading or
\* already loaded, Transform::default(), no Model.  The first frame may have
\* run or not.
SceneSpawn ==
    /\ transform = [present |-> TRUE, translation |-> <<0, 0, 0>>, scale |-> 1]
    /\ model = NoModel
    /\ changed = [transform |-> TRUE, instance_added |-> TRUE,
                  material_added |-> FALSE, model |-> FALSE]
    /\ instanceBuffer = NoInstanceBuffer
    /\ gpuMaterials = NoGpuMaterials
    /\ instances = [present |-> FALSE, list |-> <<>>]
    /\ markers = NoMarkers
    /\ asset \in {"loading", "ready"}

InitSpawn ==
    /\ \E samples \in SampleCounts : InitWith(<<1, 1>>, samples)
    /\ SceneSpawn

SpawnFrameDone ==
    FrameEnd(
        {"wireframe_render", "obj_spawner", "create_instance_buffer",
         "update_instance_buffer", "create_material_uniform",
         "update_material_buffer"})

NextSpawn ==
    \/ update_depth_texture
    \/ apply_system_buffers
    \/ start_render
    \/ base_3d_update_render_pass
    \/ base_3d_render
    \/ egui_update_render_pass
    \/ egui_render
    \/ end_render
    \/ wireframe_render
    \/ asset_loaded
    \/ obj_spawner
    \/ create_instance_buffer
    \/ update_instance_buffer
    \/ create_material_uniform
    \/ update_material_buffer
    \/ SpawnFrameDone

\* The schedule runs every system of a frame and then the next frame: a step
\* that can be taken is taken.
SpecSpawn == InitSpawn /\ [][NextSpawn]_vars /\ WF_vars(NextSpawn)

\* C17: while its asset is not ready the entity has no Model and is not
\* drawn; once the asset is ready the entity gets a Model, an InstanceBuffer
\* and GpuModelMaterials, and is drawn from then on whenever base_3d::render
\* records its pass.
C17_ReadyAssetIsDrawn ==
    /\ [](asset = "loading" => (~model.present /\ draws = <<>>))
    /\ (asset = "ready") ~>
          [](/\ model.present /\ instanceBuffer.present /\ gpuMaterials.present
             /\ JustRendered => DrawnInPhases)


(***************************************************************************)
(* Rebuilding on a change of Msaa and on a resize.                         *)
(***************************************************************************)
\* Resizes between an empty window and one of unit size: the sizes matter to
\* the rebuilding only in being zero or not.
window_resized_unit == WindowResized({0, 1})

RebuildFrameDone == FrameEnd({"wireframe_render", "settings_ui", "resize"})

InitRebuild ==
    /\ \E samples \in SampleCounts : InitWith(<<1, 1>>, samples)
    /\ NoScene

NextRebuild ==
    \/ update_depth_texture
    \/ apply_system_buffers
    \/ start_render
    \/ base_3d_update_render_pass
    \/ base_3d_render
    \/ egui_update_render_pass
    \/ egui_render
    \/ end_render
    \/ wireframe_render
    \/ settings_ui
    \/ resize
    \/ window_resized_unit
    \/ RebuildFrameDone

SpecRebuild == InitRebuild /\ [][NextRebuild]_vars

\* The step is the chain's system `sys`.
StepOf(sys) == pc < Len(Chain) /\ Chain[pc + 1] = sys /\ pc' = pc + 1

\* The objects rebuilt by the step.
RebuiltNow == SubSeq(rebuilt', Len(rebuilt) + 1, Len(rebuilt'))

\* C18: a step rebuilds the Base3dPass pipelines iff it is
\* base_3d::update_render_pass and Msaa changed since that system last ran,
\* the UI renderer iff it is the egui update_render_pass and Msaa changed
\* since it last ran, and the depth texture iff it is update_depth_texture
\* with Msaa changed since it last ran or resize with an event to process;
\* in every other step and frame the objects stay as they are.
C18_RebuiltOnChange ==
    [][/\ ("base_3d_pass" \in Range(RebuiltNow))
            <=> (StepOf("base_3d_update_render_pass") /\ msaaChanged.base)
       /\ ("egui_renderer" \in Range(RebuiltNow))
            <=> (StepOf("egui_update_render_pass") /\ msaaChanged.egui)
       /\ ("depth_texture" \in Range(RebuiltNow))
            <=> \/ StepOf("update_depth_texture") /\ msaaChanged.depth
                \/ "resize" \in ran' \ ran /\ resizeEvents > 0 /\ panic' = ""
       /\ RebuiltNow = <<>> =>
             /\ base3dPass' = base3dPass /\ eguiRenderer' = eguiRenderer
             /\ depthTexture' = depthTexture]_vars

\* In one frame the depth texture was recreated for a resize and for a
\* change of Msaa, and the pipelines and the UI renderer were rebuilt.
C18_Witness ==
    /\ Count(rebuilt, "depth_texture") >= 2
    /\ Count(rebuilt, "base_3d_pass") = 1
    /\ Count(rebuilt, "egui_renderer") = 1
    /\ resizeLog.events > 0
    /\ history.stable


\* C19: whenever an acquisition of the frame failed, the retry after an
\* Outdated error included, the frame is dropped (nothing is submitted,
\* nothing presented) and start_render returns: it does not end the process.
C19_AcquireFailureDropsFrame ==
    "acquire_err" \in Range(ops) =>
        /\ submitted = <<>>
        /\ "submit" \notin Range(ops) /\ "present" \notin Range(ops)
        /\ panic # "start_render"

(***************************************************************************)
(* The pipelines of the base 3D pass and what their draws do to the depth  *)
(* buffer.                                                                 *)
(***************************************************************************)
MaxDepth == 2

\* Depth values, from near (0) to far (MaxDepth, the cleared value 1.0).
Depths == 0..MaxDepth

\* Base3dPass::new: the depth-stencil and blend state of the three pipelines.
Base3dPass_new(sample_count) ==
    [render_pipeline |->
        [depth_write_enabled |-> TRUE, depth_compare |-> "Less",
         blend |-> "REPLACE", count |-> sample_count],
     transparent_render_pipeline |->
        [depth_write_enabled |-> TRUE, depth_compare |-> "Less",
         blend |-> "ALPHA_BLENDING", count |-> sample_count],
     light_render_pipeline |->
        [depth_write_enabled |-> FALSE, depth_compare |-> "Less",
         blend |-> "REPLACE", count |-> sample_count]]

\* The pipeline base_3d::render sets before the loop of each phase.
set_pipeline(phase) ==
    LET pass == Base3dPass_new(base3dPass)
    IN  CASE phase = "opaque" -> pass.render_pipeline
          [] phase = "transparent" -> pass.transparent_render_pipeline
          [] phase = "light" -> pass.light_render_pipeline

\* The depth test of a fragment of depth z against the stored depth.
DepthTest(pipeline, stored, z) ==
    CASE pipeline.depth_compare = "Less" -> z < stored
      [] pipeline.depth_compare = "Always" -> TRUE

\* The stored depth after a fragment of depth z of a draw with the pipeline.
DepthAfter(pipeline, stored, z) ==
    IF DepthTest(pipeline, stored, z) /\ pipeline.depth_write_enabled
    THEN z ELSE stored

\* C21: every draw of the transparent phase blends by alpha, is depth-tested
\* (Less) and writes no depth: whatever the fragment, the depth the opaque
\* phase stored stays.
C21_TransparentKeepsDepth ==
    \A i \in 1..Len(draws) :
        draws[i].phase = "transparent" =>
            LET pipeline == set_pipeline("transparent")
            IN  /\ pipeline.blend = "ALPHA_BLENDING"
                /\ pipeline.depth_compare = "Less"
                /\ \A stored \in Depths, z \in Depths :
                      DepthAfter(pipeline, stored, z) = stored

(***************************************************************************)
(* Clearing and loading of the frame's targets.                            *)
(***************************************************************************)
\* C22: in a frame where passes are recorded the first pass is the base 3D
\* pass, which clears the color target to the clear color and the depth
\* target to 1.0; every later pass loads the color, and loads the depth if it
\* attaches it: the targets are cleared exactly once.
C22_ClearedOnce ==
    passLog # <<>> =>
        /\ passLog[1].pass = "base_3d"
        /\ passLog[1].colorLoad = "Clear(clear_color)"
        /\ passLog[1].depthLoad = "Clear(1.0)"
        /\ \A i \in 2..Len(passLog) :
              /\ passLog[i].pass # "base_3d"
              /\ passLog[i].colorLoad = "Load"
              /\ passLog[i].depthLoad \in {"Load", "none"}

\* A submitted frame with the base 3D pass, the wireframe pass and the UI
\* pass.
C22_Witness ==
    /\ "submit" \in Range(ops)
    /\ [i \in 1..Len(passLog) |-> passLog[i].pass] = <<"base_3d", "wireframe", "egui">>

(***************************************************************************)
(* The draws of all passes for an entity with any of the components        *)
(* Transform, Instances, Light, Transparent and Wireframe.                 *)
(***************************************************************************)
\* A model of two sub-meshes, the second with a material of alpha 0.5.
TwoMeshes ==
    [present |-> TRUE, meshes |-> <<Some(0), Some(1)>>,
     materials |-> <<Material(0), [Material(0) EXCEPT !.alpha = <<1, 2>>]>>]

\* The model spawn_gltf builds of a glTF file that declares no material: its
\* primitive has no material index and the material list is empty.
NoMaterials ==
    [present |-> TRUE, meshes |-> <<None>>, materials |-> <<>>]

\* The entity as a host spawns it: a Model, a Transform or not, an Instances
\* list or not, and any markers.
ScenePass ==
    /\ model \in {Shape(0), TwoMeshes, NoMaterials}
    /\ transform \in {NoTransform,
                      [present |-> TRUE, translation |-> <<0, 0, 0>>, scale |-> 1]}
    /\ \/ instances = [present |-> FALSE, list |-> <<>>]
       \/ \E list \in InstanceLists : instances = [present |-> TRUE, list |-> list]
    /\ markers \in [light : BOOLEAN, transparent : BOOLEAN, wireframe : BOOLEAN]
    /\ changed = [transform |-> TRUE, instance_added |-> TRUE,
                  material_added |-> TRUE, model |-> TRUE]
    /\ instanceBuffer = NoInstanceBuffer
    /\ gpuMaterials = NoGpuMaterials
    /\ asset = "none"

InitPass ==
    /\ InitWith(<<1, 1>>, 1)
    /\ ScenePass

PassFrameDone ==
    FrameEnd(
        {"wireframe_render", "create_instance_buffer",
         "create_material_uniform"})

NextPass ==
    \/ update_depth_texture
    \/ apply_system_buffers
    \/ start_render
    \/ base_3d_update_render_pass
    \/ base_3d_render
    \/ egui_update_render_pass
    \/ egui_render
    \/ end_render
    \/ wireframe_render
    \/ create_instance_buffer
    \/ create_material_uniform
    \/ PassFrameDone

SpecPass == InitPass /\ [][NextPass]_vars

\* The pipeline a draw of the phase is made with.
PipelineOf(phase) ==
    IF phase = "wireframe" THEN WireframePipeline ELSE set_pipeline(phase)

\* C23: the draws of the light gizmo and of the wireframe pass are tested
\* against the depth buffer (Less) and leave it as it is, the UI pass has no
\* depth attachment; and right after base_3d::render the light gizmo has
\* draws exactly when the entity carries a Light marker and a Model.
C23_GizmosKeepDepth ==
    /\ \A i \in 1..Len(draws) :
          draws[i].phase \in {"light", "wireframe"} =>
              /\ PipelineOf(draws[i].phase).depth_compare = "Less"
              /\ \A stored \in Depths, z \in Depths :
                    DepthAfter(PipelineOf(draws[i].phase), stored, z) = stored
    /\ \A i \in 1..Len(passLog) :
          passLog[i].pass = "egui" => passLog[i].depthLoad = "none"
    /\ JustRendered =>
          ((\E i \in 1..Len(draws) : draws[i].phase = "light")
              <=> (model.present /\ markers.light))

\* A frame with a light gizmo's draw, and a frame with wireframe draws after
\* the opaque ones.
C23_Witness ==
    \/ /\ JustRendered /\ markers.light
       /\ \E i \in 1..Len(draws) : draws[i].phase = "light"
       /\ "egui_render" \in ChainDone
    \/ /\ \E i, j \in 1..Len(draws) :
             i < j /\ draws[i].phase = "opaque" /\ draws[j].phase = "wireframe"
       /\ "egui_render" \in ChainDone

\* C24: once the entity's data has not been written for a full frame, the
\* Instance Buffer and the material uniform buffers equal the raw form of the
\* current data, under every interleaving of the creation systems, whose
\* inserts are deferred, the update systems and the writers.
C24_NoUpdateLost ==
    (history.stable /\ ~history.mutated) =>
        /\ instanceBuffer.present => instanceBuffer.rows = InstanceData
        /\ gpuMaterials.present =>
              \A i \in 1..Len(gpuMaterials.data) :
                 gpuMaterials.data[i].buffer =
                    UniformBytes(MaterialUniform(model.materials[i]))

\* C25: every draw that reads the entity's Instance Buffer has an instance
\* range whose upper bound is at most the number of rows of that buffer,
\* whichever of Transform and Instances the entity holds.
C25_RangeWithinBuffer ==
    \A i \in 1..Len(draws) :
        draws[i].phase \in {"opaque", "transparent", "wireframe"} =>
            draws[i].instances <= Len(instanceBuffer.rows)

\* C26: every draw of the opaque, transparent and wireframe loops has the
\* instance range 0..N with N = 1 for an entity without Instances and the
\* length of the list for an entity with Instances.
C26_InstanceRange ==
    \A i \in 1..Len(draws) :
        draws[i].phase \in {"opaque", "transparent", "wireframe"} =>
            /\ ~instances.present => draws[i].instances = 1
            /\ instances.present => draws[i].instances = Len(instances.list)

\* Opaque and wireframe draws of an entity with two instances, and a draw of
\* the transparent loop.
C26_Witness ==
    /\ instances.present /\ Len(instances.list) = MaxInstances
    /\ \E i, j \in 1..Len(draws) :
          draws[i].phase = "transparent" /\ draws[j].phase = "wireframe"

\* C27: at every draw of the opaque and transparent loops, vertex slot 0 and
\* the index buffer hold the drawn mesh's buffers, vertex slot 1 the entity's
\* Instance Buffer, bind group 0 the camera and light group and bind group 1
\* the material bundle of that mesh; nothing is left from an earlier draw.
C27_BindingsOfTheDraw ==
    \A i \in 1..Len(draws) :
        draws[i].phase \in {"opaque", "transparent"} =>
            draws[i].bound =
                [vertex0 |-> <<"vertex_buffer", draws[i].mesh>>,
                 index |-> <<"index_buffer", draws[i].mesh>>,
                 vertex1 |-> <<"instance_buffer", 0>>,
                 group0 |-> <<"mesh_view", 0>>,
                 group1 |-> <<"material", unwrap_or(model.meshes[draws[i].mesh], 0)>>]

\* A frame drew the first sub-mesh in the opaque loop and the second, of
\* another material, in the transparent loop.
C27_Witness ==
    \E i, j \in 1..Len(draws) :
        /\ draws[i].phase = "opaque" /\ draws[j].phase = "transparent"
        /\ draws[i].mesh # draws[j].mesh
        /\ draws[i].material # draws[j].material

(***************************************************************************)
(* The size of the instance buffer under writes that change the number of  *)
(* instances.                                                              *)
(***************************************************************************)
\* A host system with a mutable borrow of Instances, whose list is a public
\* Vec: it pushes a Transform, pops one, or leaves the list alone.
write_instances ==
    /\ FreeReady("write_instances")
    /\ ran' = ran \cup {"write_instances"}
    /\ \E op \in {"none", "push", "pop"} :
          IF op = "none" \/ ~instances.present
             \/ (op = "push" /\ Len(instances.list) >= MaxInstances)
             \/ (op = "pop" /\ instances.list = <<>>)
          THEN UNCHANGED <<instances, changed, history>>
          ELSE /\ instances' = [instances EXCEPT !.list =
                    IF op = "push"
                    THEN Append(@, [translation |-> <<0, 0, 0>>, scale |-> 1])
                    ELSE SubSeq(@, 1, Len(@) - 1)]
               /\ changed' = [changed EXCEPT !.transform = TRUE]
               /\ history' = [history EXCEPT !.mutated = TRUE]
    /\ UNCHANGED <<frameVars, pending, transform, model, instanceBuffer,
                   gpuMaterials, markers, asset, draws, bufferOps, rebuilt>>
    /\ UNCHANGED viewVars

CountFrameDone ==
    FrameEnd(
        {"wireframe_render", "move_instances", "write_instances",
         "create_instance_buffer", "update_instance_buffer"})

NextCount ==
    \/ update_depth_texture
    \/ apply_system_buffers
    \/ start_render
    \/ base_3d_update_render_pass
    \/ base_3d_render
    \/ egui_update_render_pass
    \/ egui_render
    \/ end_render
    \/ wireframe_render
    \/ move_instances
    \/ write_instances
    \/ create_instance_buffer
    \/ update_instance_buffer
    \/ CountFrameDone

InitCount ==
    /\ InitWith(<<1, 1>>, 1)
    /\ SceneInstances

SpecCount == InitCount /\ [][NextCount]_vars

\* C28: an instance buffer keeps the size it was created with, and whatever
\* was written to the entity's Transform or Instances, the data that
\* update_instance_buffer writes at offset 0 is no longer than the buffer.
C28_WriteFitsBuffer ==
    [][instanceBuffer.present =>
          /\ instanceBuffer'.present
          /\ Len(instanceBuffer'.rows) = Len(instanceBuffer.rows)
          /\ ("update_instance_buffer" \in ran' \ ran /\ changed.transform) =>
                Len(InstanceData) <= Len(instanceBuffer.rows)]_vars

\* C29: the entity's GPU material bundles are as many as the Model's
\* materials, and the index the draw uses for a sub-mesh, its material_id or
\* 0, is below the number of bundles whenever base_3d::render draws the
\* entity.
C29_MaterialIndexInBounds ==
    /\ gpuMaterials.present => Len(gpuMaterials.data) = Len(model.materials)
    /\ drawn => \A k \in 1..Len(model.meshes) : ~IndexPanics(k)

(***************************************************************************)
(* The encoder and the surface texture of the frame.                       *)
(***************************************************************************)
\* C30: between any two systems WgpuEncoder holds an encoder exactly when
\* WgpuSurfaceTexture holds an acquired frame, and end_render never takes an
\* encoder and then fails to unwrap the surface texture.
C30_EncoderIffSurfaceTexture ==
    /\ (encoder.present /\ encoder.some)
          <=> (surfaceTexture.present /\ surfaceTexture.some)
    /\ ~(panic = "end_render" /\ ops # <<>> /\ ops[Len(ops)] = "submit")

\* end_render took the encoder and the surface texture: the frame was
\* submitted and presented.
C30_Witness ==
    /\ "end_render" \in ChainDone
    /\ encoder.present /\ ~encoder.some
    /\ surfaceTexture.present /\ ~surfaceTexture.some
    /\ ops # <<>> /\ ops[Len(ops)] = "present"

\* C31: after resize processed an event, of a window of any size, a zero
\* width or height included, the surface configuration, the depth texture
\* and the UI's size_in_pixels have the same width and height, and the
\* camera's aspect is the configuration's width divided by its height.
C31_SizesEqualAfterResize ==
    resizeLog.events > 0 =>
        /\ <<depthTexture.width, depthTexture.height>> = config
        /\ screenSize = config
        /\ aspect[2] > 0
        /\ aspect[1] * config[2] = aspect[2] * config[1]

\* C32: in a frame where the base 3D pass draws the entity, each of its
\* sub-meshes has exactly one draw in the opaque and transparent phases
\* together, whatever the alpha of its material.
C32_EverySubMeshOnce ==
    Rendered =>
        \A k \in 1..Len(model.meshes) :
            Cardinality({i \in 1..Len(draws) :
                            /\ draws[i].mesh = k
                            /\ draws[i].phase \in {"opaque", "transparent"}}) = 1
(***************************************************************************)
(* The camera.  Lengths along the forward axis are fractions <<n, d>> with *)
(* d > 0, in lowest terms; the frame time is one unit.                     *)
(***************************************************************************)
MaxSpeed == 2        \* CameraSettings.speed, in whole units
MaxKeyFrames == 1    \* frames in which a movement key is down

FRICTION == <<1, 2>>

\* The W and S keys on the forward axis; the four other movement keys add
\* to axis_input in the same way.
AxisInput(keys) ==
    (IF "W" \in keys THEN 1 ELSE 0) - (IF "S" \in keys THEN 1 ELSE 0)

\* The velocity kept as it is while no key is down.
NoFriction(v, axis_input, speed) ==
    IF axis_input # 0
    THEN [axis |-> axis_input, length |-> <<speed, 1>>]
    ELSE v

\* The velocity after one frame with the button held: that of the keys, or
\* the old one times 1 - FRICTION, set to zero when its squared length is
\* below 1e-6.
NextVelocity(v, axis_input, speed) ==
    IF axis_input # 0
    THEN [axis |-> axis_input, length |-> <<speed, 1>>]
    ELSE LET slowed == Frac(v.length[1] * (FRICTION[2] - FRICTION[1]),
                            v.length[2] * FRICTION[2])
         IN IF slowed[1] * slowed[1] * 1000000 < slowed[2] * slowed[2]
            THEN [axis |-> 0, length |-> <<0, 1>>]
            ELSE [axis |-> v.axis, length |-> slowed]

fly_camera ==
    /\ FreeReady("fly_camera")
    /\ ran' = ran \cup {"fly_camera"}
    /\ \E pressed \in BOOLEAN, keys \in SUBSET {"W", "S"}, speed \in 1..MaxSpeed :
          /\ keys # {} => pressed /\ flyInput.keyFrames < MaxKeyFrames
          /\ speed > 1 => AxisInput(keys) # 0
          /\ flyInput' = [pressed |-> pressed, keys |-> keys,
                          keyFrames |-> flyInput.keyFrames +
                                        (IF keys # {} THEN 1 ELSE 0)]
          /\ IF ~pressed
             THEN UNCHANGED <<camera, velocity>>
             ELSE LET v == NextVelocity(velocity, AxisInput(keys), speed)
                  IN /\ velocity' = v
                     /\ camera' =
                           [eye |-> Frac(camera.eye[1] * v.length[2] +
                                             v.axis * v.length[1] * camera.eye[2],
                                         camera.eye[2] * v.length[2]),
                            changed |-> TRUE]
    /\ UNCHANGED <<pc, panic, window, encoder, surfaceTexture, view, pending, ops,
                   submitted, msaaVars, sizeVars, syncVars, newVars>>
    /\ UNCHANGED <<viewPosition, cameraBuffer, lights, lightBuffer, supported,
                   format>>

\* CameraUniform::update_view_proj: the view position is the eye, and the
\* view-projection matrix is a function of the eye and of the aspect ratio.
CameraUniform_update_view_proj(cam, ratio) ==
    [view_position |-> cam.eye, view_proj |-> <<cam.eye, ratio>>]

\* The system without its `if camera.is_changed()`.
WriteEveryFrame(cam) == TRUE

\* camera.is_changed() as update_camera_buffer sees it.
Camera_is_changed(cam) == cam.changed

update_camera_buffer ==
    /\ FreeReady("update_camera_buffer")
    /\ ran' = ran \cup {"update_camera_buffer"}
    /\ IF Camera_is_changed(camera)
       THEN LET uniform == CameraUniform_update_view_proj(camera, aspect)
            IN /\ viewPosition' = uniform.view_position
               /\ cameraUniform' = uniform.view_proj[2]
               /\ cameraBuffer' = [cameraBuffer EXCEPT
                                      !.view_position = uniform.view_position,
                                      !.view_proj = uniform.view_proj]
               /\ bufferOps' = Append(bufferOps, "write_camera_buffer")
       ELSE UNCHANGED <<viewPosition, cameraUniform, cameraBuffer, bufferOps>>
    /\ camera' = [camera EXCEPT !.changed = FALSE]
    /\ UNCHANGED <<pc, panic, window, encoder, surfaceTexture, view, pending, ops,
                   submitted, msaaVars, syncVars>>
    /\ UNCHANGED <<winSize, resizeEvents, config, aspect, screenSize, resizeLog>>
    /\ UNCHANGED <<instances, markers, asset, draws, rebuilt, history>>
    /\ UNCHANGED <<velocity, flyInput, lights, lightBuffer, supported, format>>

InitCamera ==
    /\ InitWith(<<1, 1>>, 1)
    /\ NoScene

NextCamera ==
    \/ update_depth_texture
    \/ apply_system_buffers
    \/ start_render
    \/ base_3d_update_render_pass
    \/ base_3d_render
    \/ egui_update_render_pass
    \/ egui_render
    \/ end_render
    \/ wireframe_render
    \/ fly_camera
    \/ update_camera_buffer
    \/ FrameEnd({"wireframe_render", "fly_camera", "update_camera_buffer"})

SpecCamera == InitCamera /\ [][NextCamera]_vars

\* The step is a run of the unordered system `sys`.
RunOf(sys) == sys \notin ran /\ sys \in ran'

C36_FrictionStopsCamera ==
    [][RunOf("fly_camera") =>
          /\ ~flyInput'.pressed => camera' = camera /\ velocity' = velocity
          /\ (flyInput'.pressed /\ AxisInput(flyInput'.keys) = 0) =>
                /\ LET product == Frac(velocity.length[1], 2 * velocity.length[2])
                   IN  velocity'.length =
                          IF product[1] * product[1] * 1000000 <
                                 product[2] * product[2]
                          THEN <<0, 1>>
                          ELSE product
                /\ velocity.length # <<0, 1>> =>
                       velocity'.length[1] * velocity.length[2] <
                           velocity.length[1] * velocity'.length[2]
                /\ velocity'.length # <<0, 1>> => velocity'.axis = velocity.axis
          /\ velocity'.length # <<0, 1>> =>
                velocity'.length[1] * velocity'.length[1] * 1000000 >=
                    velocity'.length[2] * velocity'.length[2]
          /\ (flyInput'.pressed /\ velocity'.length = <<0, 1>>) =>
                camera'.eye = camera.eye]_vars

\* The camera was set in motion, friction has brought the velocity to zero,
\* and the button is still held with no key down.
C36_Witness ==
    /\ flyInput.pressed
    /\ flyInput.keys = {}
    /\ flyInput.keyFrames > 0
    /\ velocity.length = <<0, 1>>
    /\ camera.eye # <<0, 1>>

(***************************************************************************)
(* The light.  update_light turns every Light around the Y axis and gives  *)
(* it the colour of the settings; update_light_buffer copies the Light     *)
(* into the light buffer.                                                  *)
(***************************************************************************)
MaxAngle == 2        \* the circle of the light has MaxAngle + 1 positions
MaxColor == 1        \* the colours the settings offer, 0..MaxColor

update_light ==
    /\ FreeReady("update_light")
    /\ ran' = ran \cup {"update_light"}
    /\ \E rotate \in BOOLEAN, turn \in 0..MaxAngle, color \in 0..MaxColor :
          IF ~rotate
          THEN /\ turn = 0 /\ color = 0
               /\ UNCHANGED lights
          ELSE lights' = [i \in 1..Len(lights) |->
                             [position |-> (lights[i].position + turn) % (MaxAngle + 1),
                              color |-> <<color, 1>>,
                              changed |-> TRUE]]
    /\ UNCHANGED <<pc, panic, window, encoder, surfaceTexture, view, pending, ops,
                   submitted, msaaVars, sizeVars, syncVars, newVars>>
    /\ UNCHANGED <<camera, velocity, flyInput, viewPosition, cameraBuffer,
                   lightBuffer, supported, format>>

\* The lights with a Changed<Light> filter on the query.
ChangedLights(ls) == SelectSeq(ls, LAMBDA light : light.changed)

\* Query<&Light>: every Light.
LightQuery(ls) == ls

\* One queue.write_buffer(&light_buffer.0, 0, ..) for each Light of the query
\* in turn, with LightUniform::from(light): its position and the red, green
\* and blue of its colour.  The buffer ends with the last one written.
update_light_buffer ==
    /\ FreeReady("update_light_buffer")
    /\ ran' = ran \cup {"update_light_buffer"}
    /\ LET query == LightQuery(lights)
       IN  /\ lightBuffer' =
                 IF query = <<>> THEN lightBuffer
                 ELSE [lightBuffer EXCEPT
                          !.data = [position |-> query[Len(query)].position,
                                    color |-> query[Len(query)].color[1]]]
           /\ bufferOps' = bufferOps \o
                              [i \in 1..Len(query) |-> "write_light_buffer"]
    /\ lights' = [i \in 1..Len(lights) |-> [lights[i] EXCEPT !.changed = FALSE]]
    /\ UNCHANGED <<pc, panic, window, encoder, surfaceTexture, view, pending, ops,
                   submitted, msaaVars, sizeVars, syncVars>>
    /\ UNCHANGED <<instances, markers, asset, draws, rebuilt, history>>
    /\ UNCHANGED <<camera, velocity, flyInput, viewPosition, cameraBuffer,
                   supported, format>>

NextLight ==
    \/ update_depth_texture
    \/ apply_system_buffers
    \/ start_render
    \/ base_3d_update_render_pass
    \/ base_3d_render
    \/ egui_update_render_pass
    \/ egui_render
    \/ end_render
    \/ wireframe_render
    \/ update_light
    \/ update_light_buffer
    \/ FrameEnd({"wireframe_render", "update_light", "update_light_buffer"})

SpecLight == InitCamera /\ [][NextLight]_vars

\* C34: with one Light, a run of update_light_buffer writes the light
\* buffer once with the position and colour the Light has at that moment,
\* whether or not the Light was written since the last run; a frame that
\* ends has had exactly one such write; and no step replaces the light
\* buffer created at startup.
C34_LightWrittenEveryFrame ==
    [][Len(lights) = 1 =>
          /\ lightBuffer'.created = lightBuffer.created
          /\ RunOf("update_light_buffer") =>
                /\ lightBuffer'.data = [position |-> lights[1].position,
                                        color |-> lights[1].color[1]]
                /\ bufferOps' = Append(bufferOps, "write_light_buffer")
          /\ ~RunOf("update_light_buffer") =>
                /\ lightBuffer' = lightBuffer
                /\ Count(bufferOps', "write_light_buffer") <=
                       Count(bufferOps, "write_light_buffer")
          /\ (pc = Len(Chain) /\ pc' = 0) =>
                Count(bufferOps, "write_light_buffer") = 1]_vars

\* The light has turned and changed colour, and this frame's write has put
\* both into the buffer.
C34_Witness ==
    /\ Len(lights) = 1
    /\ "update_light_buffer" \in ran
    /\ Count(bufferOps, "write_light_buffer") = 1
    /\ lights[1].position # 0
    /\ lights[1].color[1] # 0
    /\ lightBuffer.data = [position |-> lights[1].position,
                           color |-> lights[1].color[1]]

(***************************************************************************)
(* The vertex layout of the instance buffer.  Offsets, widths and the      *)
(* stride are counted in f32s.                                             *)
(***************************************************************************)
\* TransformRaw::layout.  The stride is size_of::<TransformRaw>(): a 4x4, a
\* 3x3 and a 4x4 matrix of f32.
TransformRaw_layout ==
    [array_stride |-> 4 * 4 + 3 * 3 + 4 * 4,
     attributes |->
        << [offset |-> 0, shader_location |-> 5, width |-> 4],
           [offset |-> 4, shader_location |-> 6, width |-> 4],
           [offset |-> 8, shader_location |-> 7, width |-> 4],
           [offset |-> 12, shader_location |-> 8, width |-> 4],
           [offset |-> 16, shader_location |-> 9, width |-> 3],
           [offset |-> 19, shader_location |-> 10, width |-> 3],
           [offset |-> 22, shader_location |-> 11, width |-> 3],
           [offset |-> 25, shader_location |-> 12, width |-> 4],
           [offset |-> 34, shader_location |-> 13, width |-> 4],
           [offset |-> 38, shader_location |-> 14, width |-> 4],
           [offset |-> 42, shader_location |-> 15, width |-> 4] >>]

\* C35: for every TransformRaw in the instance buffer, the k-th attribute
\* of TransformRaw::layout starts where the k-th column of the struct starts
\* and is as wide as it, which puts the attributes at the f32 offsets 0, 4,
\* 8, 12 (model), 16, 19, 22 (normal) and 25, 29, 33, 37
\* (inverse_transpose_model); and each attribute ends within the stride of
\* 41 f32s.
C35_LayoutMatchesStruct ==
    \A i \in 1..Len(instanceBuffer.rows) :
        LET layout == TransformRaw_layout
            attributes == layout.attributes
            raw == instanceBuffer.rows[i]
            columns == raw.model \o raw.normal \o raw.inverse_transpose_model
            start(k) == Cardinality({p \in (1..(k - 1)) \X (1..4) :
                                        p[2] <= Len(columns[p[1]])})
        IN  /\ layout.array_stride = 41
            /\ Len(attributes) = Len(columns)
            /\ \A k \in 1..Len(attributes) :
                   /\ attributes[k].offset = start(k)
                   /\ attributes[k].width = Len(columns[k])
                   /\ attributes[k].offset + attributes[k].width
                          <= layout.array_stride
            /\ [k \in 1..Len(attributes) |-> attributes[k].offset] =
                   <<0, 4, 8, 12, 16, 19, 22, 25, 29, 33, 37>>

(***************************************************************************)
(* The surface format.  The surface reports any non-empty list of formats; *)
(* WgpuRenderer::new picks one, and the pipelines name a target format.    *)
(***************************************************************************)
MaxFormats == 3      \* length of the list of supported formats

\* The target format of the pipelines a recorded pass draws with:
\* config.format in WgpuRenderer::create_render_pipeline and in the
\* wireframe pipeline, a literal in the egui Renderer::new of
\* setup_render_pass and update_render_pass.
PassTargetFormat(p) ==
    IF p.pass = "egui" THEN "Bgra8UnormSrgb" ELSE format

InitFormat ==
    /\ \E formats \in SeqsUpTo({"Bgra8UnormSrgb", "Rgba8UnormSrgb",
                               "Bgra8Unorm", "Rgba8Unorm"}, MaxFormats),
          samples \in SampleCounts :
          /\ InitRenderer(<<1, 1>>, samples)
          /\ supported = formats
          /\ format = surface_format(formats)
    /\ NoScene

SpecFormat == InitFormat /\ [][Next]_vars

\* C37: the configured surface format is the first sRGB format of the
\* supported list when the list has one, and the first format of the list
\* otherwise.
C37_FirstSrgbElseFirst ==
    LET srgb == {i \in 1..Len(supported) : describe_srgb(supported[i])}
    IN  format = IF srgb = {}
                 THEN supported[1]
                 ELSE supported[CHOOSE i \in srgb : \A j \in srgb : i <= j]

\* A frame is being rendered on a surface whose first format is not sRGB
\* and whose later formats hold two different sRGB ones.
C37_Witness ==
    /\ pc > 0
    /\ ~describe_srgb(supported[1])
    /\ Cardinality({i \in 1..Len(supported) : describe_srgb(supported[i])}) = 2
    /\ format = supported[2]
    /\ supported[2] # supported[3]

\* C38: every pass recorded into the frame's colour target draws with
\* pipelines whose target format is the configured surface format.
C38_PipelinesMatchSurface ==
    \A i \in 1..Len(passLog) : PassTargetFormat(passLog[i]) = format

====
